---- MODULE Spec2Model ----
(***************************************************************************)
(* PDF Discovery Engine (cendoj-scraper): the adaptive rate limiter        *)
(* (utils/adaptive_limiter.py), the frontier loop and its checkpoints      *)
(* (scraper/deep_crawler.py) and the session orchestrator                  *)
(* (scraper/discovery_scanner.py).                                         *)
(*                                                                         *)
(* The specifications that share the module:                               *)
(*   Spec            orchestrator + frontier + checkpoint file + store     *)
(*   SpecLimiter     the AdaptiveRateLimiter under arbitrary calls         *)
(*   SpecStrategies  the lifecycle of the seed strategies                  *)
(*   SpecProxies     the ProxyManager under arbitrary calls                *)
(*   SpecSources     the pool when sources list an endpoint repeatedly     *)
(*   SpecValidator   the HEAD validator's calls on the ProxyManager        *)
(*   SpecMarks       the ProxyManager under mark_result() calls only       *)
(*   SpecFrontier    the frontier loop when pages always end the same way  *)
(*   SpecFunctions   the pure functions, each applied to a drawn input     *)
(***************************************************************************)
EXTENDS Integers, Sequences, FiniteSets, TLC

VARIABLES
    \* ---- AdaptiveRateLimiter (utils/adaptive_limiter.py) ----
    base_rate,        \* self.base_rate            (requests per minute)
    current_rate,     \* self.current_rate         (in 1/RateScale req/min)
    burst_size,       \* self.burst_size
    backoff_on_429,   \* self.backoff_on_429
    max_backoff,      \* self.max_backoff          (seconds)
    tokens,           \* self.tokens               (in 1/TokUnit tokens)
    last_refill,      \* self.last_refill          (seconds)
    limiter_stats,    \* self.stats
    now,              \* time.time()               (seconds)
    lim_last,         \* the last limiter call and how it ended
    lim_hist,         \* what the claims need to remember of earlier calls
    \* ---- persisted: database and session directory ----
    sessions,         \* discovery_sessions rows, sessions[i] has id i
    pdf_links,        \* pdf_links rows in insertion order
    files,            \* files[i]: crawler_state_<i>.pkl in session_dir
    clock,            \* datetime.utcnow()
    \* ---- one process: DiscoveryScanner and its DeepCrawler ----
    pc,               \* where the process is
    config,           \* the discovery configuration of the process
    session_id,       \* DiscoveryScanner.session_id
    resume_session_id,\* the argument of DiscoveryScanner.initialize
    visited_urls,     \* DeepCrawler.visited_urls
    queue,            \* DeepCrawler.queue
    stats,            \* DeepCrawler.stats
    state_file,       \* DeepCrawler.state_file (None, or the session it names)
    cur,              \* the entry popped by the running iteration
    exc,              \* the exception unwinding crawl() and run(), if any
    iter,             \* what the running iteration has done so far
    hist,             \* what the claims need to remember of the process
    faults,           \* environment faults injected so far
    \* ---- DiscoveryScanner: the seed strategies and their lifecycle ----
    strategies,       \* DiscoveryScanner.strategies (the enabled ones, in order)
    st_pc,            \* where the scanner is in the strategies' lifecycle
    st_failed,        \* the strategies whose lifecycle step raised, with the step
    st_ran,           \* the strategies whose discover() was called
    strategy_results, \* the list _run_strategies has built so far
    st_seed_urls,     \* what _get_seed_urls returned
    \* ---- ProxyManager (utils/proxy_manager.py) ----
    proxies,          \* ProxyManager.proxies, the active pool
    round_robin_index,\* ProxyManager._round_robin_index
    pm_cache,         \* the records in the cache file
    pm_now,           \* datetime.utcnow(), in hours
    pm_last,          \* the last ProxyManager call and what it returned
    pm_calls,         \* ProxyManager calls made after initialize()
    \* ---- pure functions ----
    fn_in,            \* the function called and its arguments
    fn_out            \* what it returned, once it has

limVars == <<base_rate, current_rate, burst_size, backoff_on_429, max_backoff,
             tokens, last_refill, limiter_stats, now, lim_last, lim_hist>>

storeVars == <<sessions, pdf_links, files, clock>>
procVars == <<pc, config, session_id, resume_session_id, visited_urls, queue,
              stats, state_file, cur, exc, iter, hist, faults>>

stratVars == <<strategies, st_pc, st_failed, st_ran, strategy_results,
               st_seed_urls>>

proxyVars == <<proxies, round_robin_index, pm_cache, pm_now, pm_last, pm_calls>>

fnVars == <<fn_in, fn_out>>

vars == <<limVars, storeVars, procVars, stratVars, proxyVars, fnVars>>

\* what the actions of one component leave alone
outsideLimiter == <<storeVars, procVars, stratVars, proxyVars, fnVars>>
outsideProcess == <<limVars, stratVars, proxyVars, fnVars>>
outsideStrategies == <<limVars, storeVars, procVars, proxyVars, fnVars>>
outsideProxies == <<limVars, storeVars, procVars, stratVars, fnVars>>
outsideFunctions == <<limVars, storeVars, procVars, stratVars, proxyVars>>

(***************************************************************************)
(* Bounds of the model.                                                    *)
(***************************************************************************)
Max429 == 3         \* on_429() calls that adapt the rate
MaxSuccess == 2     \* on_success() calls that adapt the rate
MaxRequests == 3    \* wait() calls that return
MaxTime == 10       \* seconds of model time
MaxRuns == 2        \* discover invocations (processes), one session each
MaxFaults == 1      \* environment faults (HTTP errors, exceptions, CAPTCHAs)

(***************************************************************************)
(* Arithmetic.  current_rate and tokens are Python floats; they are kept   *)
(* exactly, as integers over a common denominator.  Every reachable rate   *)
(* is c * 0.5^a * 1.1^b with c in {base_rate, 1}, a <= Max429 and          *)
(* b <= MaxSuccess, so RateScale * rate is an integer.                     *)
(***************************************************************************)
RECURSIVE Pow(_, _)
Pow(b, e) == IF e = 0 THEN 1 ELSE b * Pow(b, e - 1)

RateScale == Pow(2, Max429) * Pow(10, MaxSuccess)
TokUnit == 60 * RateScale

Min(a, b) == IF a <= b THEN a ELSE b
Max(a, b) == IF a >= b THEN a ELSE b

(***************************************************************************)
(* AdaptiveRateLimiter                                                     *)
(***************************************************************************)
decrease_factor_den == 2    \* decrease_factor = 0.5 = 1 / decrease_factor_den

\* __init__: the configurations the limiter is constructed with.
RequestsPerMinute == {2, 60}
BurstSizes == {1, 2}
MaxBackoffs == {20, 300}
Callers == {"frontier", "strategy"}

\* a variant of line 97 without the floor of 1 request per minute
RateAfter429_NoFloor(rate) == rate \div decrease_factor_den

\* on_429, line 97: max(1, self.current_rate * self.decrease_factor)
RateAfter429(rate) == Max(1 * RateScale, rate \div decrease_factor_den)

\* on_429, lines 100-103: min(self.max_backoff, (429_count ** 2) * 10)
BackoffSeconds(count, maxb) == Min(maxb, (count * count) * 10)

\* a variant of on_success that raises the rate without the cap at base_rate
RateAfterSuccess_NoCap(rate, base) == (rate * 11) \div 10

\* on_success, lines 118-122: only below base_rate, min(base_rate, rate * 1.1)
RateAfterSuccess(rate, base) ==
    IF rate < base * RateScale
    THEN Min(base * RateScale, (rate * 11) \div 10)
    ELSE rate

\* _refill, lines 82-85: min(burst_size, tokens + elapsed * current_rate / 60)
Refill(tok, elapsed, rate, burst) == Min(burst * TokUnit, tok + elapsed * rate)

\* wait, line 58: the test that lets a caller take a token
TokenAvailable(tok) == tok > 0

LimInit ==
    /\ base_rate \in RequestsPerMinute
    /\ current_rate = base_rate * RateScale          \* float(requests_per_minute)
    /\ burst_size \in BurstSizes
    /\ backoff_on_429 \in BOOLEAN
    /\ max_backoff \in MaxBackoffs
    /\ tokens = burst_size * TokUnit
    /\ now = 0
    /\ last_refill = now
    /\ limiter_stats = [total_requests |-> 0, c429 |-> 0, current_backoff |-> 0]
    /\ lim_last = [op |-> "init", result |-> "returned", caller |-> "none"]
    /\ lim_hist = [last429_at |-> -1, recoveries |-> 0]

\* wait(): under the lock, _refill(), then either take a token and return, or
\* compute the wait time.  Line 67 reads the undefined name `refilknowledge`
\* (and line 70 the module `random`, which is never imported), so the branch
\* that would sleep raises NameError instead; the lock is released by the
\* `async with`.  No await is reached while the lock is held, so a call is
\* one atomic step of the event loop.
Wait(c) ==
    LET refilled == Refill(tokens, now - last_refill, current_rate, burst_size) IN
    /\ limiter_stats.total_requests < MaxRequests
    /\ last_refill' = now
    /\ IF TokenAvailable(refilled)
       THEN /\ tokens' = refilled - 1 * TokUnit
            /\ limiter_stats' = [limiter_stats EXCEPT !.total_requests = @ + 1]
            /\ lim_last' = [op |-> "wait", result |-> "returned", caller |-> c]
       ELSE /\ tokens' = refilled
            /\ limiter_stats' = limiter_stats
            /\ lim_last' = [op |-> "wait", result |-> "raised", caller |-> c]
    /\ UNCHANGED <<base_rate, current_rate, burst_size, backoff_on_429,
                   max_backoff, now, lim_hist>>
    /\ UNCHANGED outsideLimiter

\* on_429(): no-op when backoff_on_429 is off.  Otherwise lines 95-104 update
\* the counter, the rate and the backoff statistic; line 106 then calls
\* self.logger.warning, and the class never sets self.logger (only the module
\* has `logger`), so the call raises AttributeError before lines 112-113
\* (tokens = 0, last_refill = now - backoff) are reached.
On429 ==
    /\ UNCHANGED outsideLimiter
    /\ IF ~backoff_on_429
       THEN /\ lim_last' = [op |-> "on_429", result |-> "returned", caller |-> "none"]
            /\ UNCHANGED <<base_rate, current_rate, burst_size, backoff_on_429,
                           max_backoff, tokens, last_refill, limiter_stats, now, lim_hist>>
       ELSE /\ limiter_stats.c429 < Max429
            /\ limiter_stats' = [limiter_stats EXCEPT
                   !.c429 = @ + 1,
                   !.current_backoff = BackoffSeconds(limiter_stats.c429 + 1, max_backoff)]
            /\ current_rate' = RateAfter429(current_rate)
            /\ lim_last' = [op |-> "on_429", result |-> "raised", caller |-> "none"]
            /\ lim_hist' = [lim_hist EXCEPT !.last429_at = now]
            /\ UNCHANGED <<base_rate, burst_size, backoff_on_429, max_backoff,
                           tokens, last_refill, now>>

\* on_success(): raises the rate when it is below base_rate; the log call of
\* line 123 then raises AttributeError (self.logger again), after the update.
OnSuccess ==
    /\ lim_hist.recoveries < MaxSuccess
    /\ current_rate' = RateAfterSuccess(current_rate, base_rate)
    /\ lim_last' = [op |-> "on_success",
                    result |-> IF current_rate < base_rate * RateScale
                               THEN "raised" ELSE "returned",
                    caller |-> "none"]
    /\ lim_hist' = [lim_hist EXCEPT !.recoveries =
                      IF current_rate < base_rate * RateScale THEN @ + 1 ELSE @]
    /\ UNCHANGED <<base_rate, burst_size, backoff_on_429, max_backoff,
                   tokens, last_refill, limiter_stats, now>>
    /\ UNCHANGED outsideLimiter

\* time.time() advances between calls.
TickSeconds == {5}
Tick ==
    \E d \in TickSeconds :
        /\ now + d <= MaxTime
        /\ now' = now + d
        /\ UNCHANGED <<base_rate, current_rate, burst_size, backoff_on_429,
                       max_backoff, tokens, last_refill, limiter_stats,
                       lim_last, lim_hist>>
        /\ UNCHANGED outsideLimiter

NextLimiter ==
    \/ \E c \in Callers : Wait(c)
    \/ On429
    \/ OnSuccess
    \/ Tick

(***************************************************************************)
(* URLs and the crawled site                                               *)
(*                                                                         *)
(* A URL is [path, caps, query]: its path spelled in lower case, whether   *)
(* the URL as written has capitals in it, and its query string.            *)
(***************************************************************************)
None == "None"

Url(path, caps, query) == [path |-> path, caps |-> caps, query |-> query]

\* Python's None where a URL is expected
NoUrl == Url("", FALSE, "")

\* _normalize_url: urlparse(url.lower()), then scheme://netloc/path only
_normalize_url(url) == [path |-> url.path, caps |-> FALSE, query |-> ""]

U_root == Url("/", FALSE, "")
U_a == Url("/a", FALSE, "")
U_a2 == Url("/a", FALSE, "p=2")
U_b == Url("/b", FALSE, "")
X_pdf == Url("/x.pdf", FALSE, "")
X_pdf2 == Url("/x.pdf", TRUE, "v=1")     \* written /X.PDF?v=1
Y_pdf == Url("/y.pdf", FALSE, "")

\* what the site serves: anchors and PDF references of each page
Anchors(path) ==
    CASE path = "/"  -> <<U_a, U_a2, U_b>>
      [] path = "/a" -> <<U_root, U_b>>
      [] OTHER       -> <<>>

CssPdfs(path) ==
    CASE path = "/"  -> <<Y_pdf>>
      [] path = "/a" -> <<X_pdf>>
      [] path = "/b" -> <<Y_pdf>>
      [] OTHER       -> <<>>

RegexPdfs(path) ==
    CASE path = "/b" -> <<X_pdf2>>
      [] OTHER       -> <<>>

ScriptPdfs(path) ==
    CASE path = "/a" -> <<X_pdf2>>
      [] OTHER       -> <<>>

\* the seed URLs _get_seed_urls hands to the crawler
SeedUrls == <<U_root, U_b>>

\* HEAD validation of a PDF URL: the site answers 200 for y.pdf only
HeadAccessible(url) == url.path = "/y.pdf"

\* how a HEAD request of the validator ends: status 200, another status, or
\* an exception (network error, timeout)
HeadOutcomes == {"200", "http_error", "raises"}

\* how the HEAD of a URL of the site ends
HeadOf(url) == IF HeadAccessible(url) THEN "200" ELSE "http_error"

\* _validate_url, lines 338-370: the result dict; an exception leaves
\* 'accessible' False and 'status' None and sets 'error'
_validate_url(head) ==
    [accessible |-> head = "200",
     status |-> IF head = "raises" THEN None ELSE head,
     error |-> head = "raises"]

(***************************************************************************)
(* DeepCrawler: extraction and store                                       *)
(***************************************************************************)
\* the confidence each method attaches to what it finds, in tenths
Confidence(method) ==
    CASE method = "css_pdf_selector" -> 9
      [] method = "regex_fallback" -> 7
      [] method = "script_scan" -> 6

Tag(urls, method) ==
    [i \in 1..Len(urls) |->
        [url |-> urls[i], method |-> method, confidence |-> Confidence(method)]]

\* a variant of the deduplication that keeps every entry
DedupByNormalized_KeepAll(pdfs, seen) == pdfs

RECURSIVE DedupByNormalized(_, _)
DedupByNormalized(pdfs, seen) ==
    IF pdfs = <<>> THEN <<>>
    ELSE IF _normalize_url(Head(pdfs).url) \in seen
         THEN DedupByNormalized(Tail(pdfs), seen)
         ELSE <<Head(pdfs)>> \o
              DedupByNormalized(Tail(pdfs), seen \cup {_normalize_url(Head(pdfs).url)})

\* _extract_pdfs_from_page, lines 220-281, on what the three methods append
\* (a method that raises has appended what it found before): CSS, then
\* regex, then script scan; first seen wins
ExtractPdfs(css, regex, script) ==
    DedupByNormalized(Tag(css, "css_pdf_selector")
                      \o Tag(regex, "regex_fallback")
                      \o Tag(script, "script_scan"), {})

\* _extract_pdfs_from_page on a page of the site
_extract_pdfs_from_page(path) ==
    ExtractPdfs(CssPdfs(path), RegexPdfs(path), ScriptPdfs(path))

\* _extract_internal_links: the page's same-site anchors, at most 100
_extract_internal_links(path) == Anchors(path)

\* a table without the unique index on normalized_url
NoUniqueIndex(rows, normalized) == FALSE

\* PDFLink.__table_args__: idx_pdf_links_normalized_url, unique=True.
\* The commit of a row whose normalized_url is already stored fails.
UniqueIndexViolated(rows, normalized) ==
    \E i \in 1..Len(rows) : rows[i].normalized_url = normalized

\* _store_pdf_link: the rows after the call.  With an existing row and
\* deduplicate on it returns None; otherwise it adds the row and commits,
\* and an IntegrityError of the commit is caught and rolled back.
_store_pdf_link(rows, pdf, source, sid, deduplicate) ==
    LET normalized == _normalize_url(pdf.url)
        existing == \E i \in 1..Len(rows) : rows[i].normalized_url = normalized
    IN  IF existing /\ deduplicate THEN rows
        ELSE IF UniqueIndexViolated(rows, normalized) THEN rows
        ELSE Append(rows, [url |-> pdf.url,
                           normalized_url |-> normalized,
                           source_url |-> source,
                           discovery_session_id |-> sid,
                           status |-> "discovered",
                           extraction_method |-> pdf.method])

\* crawl, line 170: the status a validated link gets
LinkStatus(validation) ==
    IF validation.accessible THEN "accessible" ELSE "broken"

\* crawl, lines 162-174: store the PDF; when a row was added (pdf_link is
\* not None) and validate_on_discovery is on, it takes the verdict of the
\* HEAD, which ended as `head`
StoreAndValidateWith(rows, pdf, source, sid, cfg, head) ==
    LET stored == _store_pdf_link(rows, pdf, source, sid, cfg.deduplicate) IN
    IF cfg.validate_on_discovery /\ Len(stored) > Len(rows)
    THEN [stored EXCEPT ![Len(stored)].status = LinkStatus(_validate_url(head))]
    ELSE stored

\* the same on the modelled site
StoreAndValidate(rows, pdf, source, sid, cfg) ==
    StoreAndValidateWith(rows, pdf, source, sid, cfg, HeadOf(pdf.url))

RECURSIVE StoreAll(_, _, _, _, _)
StoreAll(rows, pdfs, source, sid, cfg) ==
    IF pdfs = <<>> THEN rows
    ELSE StoreAll(StoreAndValidate(rows, Head(pdfs), source, sid, cfg),
                  Tail(pdfs), source, sid, cfg)

(***************************************************************************)
(* The process: DiscoveryScanner.initialize / run / cleanup driving        *)
(* DeepCrawler.initialize / crawl                                          *)
(***************************************************************************)
\* DeepCrawler.save_interval.  The source sets 100 pages; the model scales
\* it to the size of the modelled site so that periodic checkpoints happen.
save_interval == 2

\* os.path.exists(state_file) is false
Absent == [kind |-> "absent"]
\* a file opened with 'wb' whose pickle is incomplete
Partial == [kind |-> "partial"]

\* DiscoverySession.end_time of a row whose end_time is NULL
NoTime == -1

\* the discovery configurations the processes may be started with
Configs ==
    { [deduplicate |-> TRUE,  max_depth |-> 1, follow_internal_links |-> TRUE,
       validate_on_discovery |-> TRUE],
      [deduplicate |-> FALSE, max_depth |-> 0, follow_internal_links |-> TRUE,
       validate_on_discovery |-> TRUE] }

ZeroStats == [pages_visited |-> 0, pdfs_found |-> 0, internal_links_found |-> 0,
              errors |-> 0, captchas |-> 0]

\* a call the iteration makes on the rate limiter, the proxy pool or the
\* network, and the request (goto or head) it is made for
Call(op, about) == [op |-> op, about |-> about]

\* url, depth: the entry the iteration dequeued.
\* calls: the calls the iteration has made so far, in order.  The process
\* runs with the rate limiter and a proxy manager wired in
\* (discovery_scanner.py lines 106-126) and a pool that is not empty.
NoIter == [url |-> NoUrl, depth |-> 0, page |-> "none", done |-> TRUE,
           how |-> "none", visited_before |-> {}, calls |-> <<>>]

\* http_errors: the normalized URLs whose navigation answered >= 400 in this
\* session; saved: the visited set and the pages_visited counter of each
\* checkpoint the session has written, in the order of writing
NoHist == [dequeues |-> 0, final_save |-> "none", save_ret |-> "none",
           http_errors |-> {}, saved |-> <<>>]

Entry(url, depth, source, method) ==
    [url |-> url, depth |-> depth, source_url |-> source, method |-> method]

\* no entry is being processed
NoEntry == Entry(NoUrl, 0, NoUrl, "none")

\* DeepCrawler.initialize, lines 86-87
SeedEntries == [i \in 1..Len(SeedUrls) |-> Entry(SeedUrls[i], 0, NoUrl, "seed")]

\* a variant of the pickled state that lists the URLs still queued as the
\* visited ones and counts them
CheckpointOf_Queued(sid, visited, q, st, t) ==
    [kind |-> "checkpoint", session_id |-> sid,
     visited_urls |-> {_normalize_url(q[i].url) : i \in 1..Len(q)},
     queue |-> q, stats |-> [st EXCEPT !.pages_visited = Len(q)],
     saved_at |-> t]

\* _save_state, lines 429-435: the pickled state
CheckpointOf(sid, visited, q, st, t) ==
    [kind |-> "checkpoint", session_id |-> sid, visited_urls |-> visited,
     queue |-> q, stats |-> st, saved_at |-> t]

IsCheckpoint(f) == f.kind = "checkpoint"

\* _update_session_status, lines 341-352
UpdateSessionStatus(sess, status, t) ==
    [sess EXCEPT !.status = status, !.end_time = t]

\* a variant of the enqueue that gives a link the depth of its page
RECURSIVE NewEntries_SameDepth(_, _, _, _)
NewEntries_SameDepth(links, visited, depth, source) ==
    IF links = <<>> THEN <<>>
    ELSE (IF _normalize_url(Head(links)) \notin visited
          THEN <<Entry(Head(links), depth, source, "internal_link")>>
          ELSE <<>>) \o NewEntries_SameDepth(Tail(links), visited, depth, source)

\* crawl, lines 179-185: the internal links that are enqueued
RECURSIVE NewEntries(_, _, _, _)
NewEntries(links, visited, depth, source) ==
    IF links = <<>> THEN <<>>
    ELSE (IF _normalize_url(Head(links)) \notin visited
          THEN <<Entry(Head(links), depth + 1, source, "internal_link")>>
          ELSE <<>>) \o NewEntries(Tail(links), visited, depth, source)

ProcInit ==
    /\ sessions = <<>>
    /\ pdf_links = <<>>
    /\ files = <<>>
    /\ clock = 0
    /\ pc = "idle"
    /\ config \in Configs
    /\ session_id = 0
    /\ resume_session_id = 0
    /\ visited_urls = {}
    /\ queue = <<>>
    /\ stats = ZeroStats
    /\ state_file = 0
    /\ cur = NoEntry
    /\ exc = None
    /\ iter = NoIter
    /\ hist = NoHist
    /\ faults = 0

\* the sessions a caller may ask to resume (cli.py picks the last one)
Interrupted == {i \in 1..Len(sessions) : sessions[i].status = "interrupted"}

\* DiscoveryScanner.__init__ and initialize(resume_session_id): a fresh
\* uuid4 session id, the session row in status 'running', a new DeepCrawler.
\* The resume_session_id argument is not used by initialize.
Start(rid) ==
    /\ pc \in {"idle", "exited"}
    /\ Len(sessions) < MaxRuns
    /\ session_id' = Len(sessions) + 1
    /\ resume_session_id' = rid
    /\ sessions' = Append(sessions, [id |-> Len(sessions) + 1, status |-> "running",
                                     start_time |-> clock, end_time |-> NoTime])
    /\ files' = Append(files, Absent)
    /\ clock' = clock + 1
    /\ visited_urls' = {}
    /\ queue' = <<>>
    /\ stats' = ZeroStats
    /\ state_file' = 0
    /\ cur' = NoEntry
    /\ exc' = None
    /\ iter' = NoIter
    /\ hist' = NoHist
    /\ pc' = "run"
    /\ UNCHANGED outsideProcess
    /\ UNCHANGED <<pdf_links, config, faults>>

\* run, lines 185-191: strategies, seed URLs, then DeepCrawler.initialize:
\* the state file is named after this process's session id; it is loaded when
\* it exists, else the queue is seeded.
CrawlerInitialize ==
    /\ pc = "run"
    /\ state_file' = session_id
    /\ IF files[session_id].kind = "absent"
       THEN /\ queue' = SeedEntries
            /\ UNCHANGED <<visited_urls, stats, exc>>
            /\ pc' = "loop"
       ELSE IF files[session_id].kind = "partial"
       THEN /\ exc' = "Exception"           \* _load_state re-raises
            /\ pc' = "except"
            /\ UNCHANGED <<visited_urls, queue, stats>>
       ELSE /\ visited_urls' = files[session_id].visited_urls
            /\ queue' = files[session_id].queue
            /\ stats' = files[session_id].stats
            /\ pc' = "loop"
            /\ UNCHANGED exc
    /\ UNCHANGED outsideProcess
    /\ UNCHANGED <<storeVars, config, session_id, resume_session_id, cur, iter,
                   hist, faults>>

\* a variant of the depth test that lets depth = max_depth through
TooDeep_OffByOne(depth, max_depth) == max_depth > 0 /\ depth > max_depth

\* crawl, line 114: the depth limit (0 = unlimited)
TooDeep(depth, max_depth) == max_depth > 0 /\ depth >= max_depth

\* crawl, line 190: self.visited_urls.add(self._normalize_url(url))
MarkVisited(visited, url) == visited \cup {_normalize_url(url)}

\* a variant of the visited test that looks the URL up as it was queued
SkipsAsVisited_Raw(visited, url) == url \in visited

\* crawl, lines 110-111: the dequeued URL is skipped as already visited
SkipsAsVisited(visited, url) == _normalize_url(url) \in visited

\* crawl, lines 106-116: pop the front entry; skip it when visited or too deep
Dequeue ==
    /\ pc = "loop"
    /\ queue # <<>>
    /\ queue' = Tail(queue)
    /\ hist' = [hist EXCEPT !.dequeues = @ + 1]
    /\ LET e == Head(queue) IN
       IF \/ SkipsAsVisited(visited_urls, e.url)
          \/ TooDeep(e.depth, config.max_depth)
       THEN /\ pc' = "loop"
            /\ cur' = NoEntry
            /\ iter' = [NoIter EXCEPT !.url = e.url, !.depth = e.depth,
                                      !.how = "skipped",
                                      !.visited_before = visited_urls]
       ELSE /\ pc' = "wait"
            /\ cur' = e
            /\ iter' = [url |-> e.url, depth |-> e.depth, page |-> "none",
                        done |-> FALSE, how |-> "running",
                        visited_before |-> visited_urls, calls |-> <<>>]
    /\ UNCHANGED outsideProcess
    /\ UNCHANGED <<storeVars, config, session_id, resume_session_id,
                   visited_urls, stats, state_file, exc, faults>>

\* crawl, line 106: the queue is empty, the loop ends
LoopExit ==
    /\ pc = "loop"
    /\ queue = <<>>
    /\ pc' = "finally"
    /\ UNCHANGED outsideProcess
    /\ UNCHANGED <<storeVars, config, session_id, resume_session_id,
                   visited_urls, queue, stats, state_file, cur, exc, iter, hist,
                   faults>>

\* crawl, lines 119-124: rate_limiter.wait() returns, then a proxy and a
\* user agent are picked
WaitReturns ==
    /\ pc = "wait"
    /\ iter' = [iter EXCEPT !.calls = @ \o <<Call("wait", "goto"),
                                              Call("get_next_proxy", "goto")>>]
    /\ pc' = "visit"
    /\ UNCHANGED outsideProcess
    /\ UNCHANGED <<storeVars, config, session_id, resume_session_id,
                   visited_urls, queue, stats, state_file, cur, exc, hist,
                   faults>>

\* crawl, line 120: rate_limiter.wait() raises (no token: see Wait).  The call
\* is outside the try of line 127, so the exception leaves the loop.
WaitRaises ==
    /\ pc = "wait"
    /\ faults < MaxFaults
    /\ faults' = faults + 1
    /\ exc' = "Exception"
    /\ iter' = [iter EXCEPT !.done = TRUE, !.how = "escaped"]
    /\ pc' = "finally"
    /\ UNCHANGED outsideProcess
    /\ UNCHANGED <<storeVars, config, session_id, resume_session_id,
                   visited_urls, queue, stats, state_file, cur, hist>>

\* crawl, lines 128-139: the page opens and goto answers below 400
NavigateOk ==
    /\ pc = "visit"
    /\ iter' = [iter EXCEPT !.page = "open",
                            !.calls = Append(@, Call("goto", "goto"))]
    /\ pc' = "captcha"
    /\ UNCHANGED outsideProcess
    /\ UNCHANGED <<storeVars, config, session_id, resume_session_id,
                   visited_urls, queue, stats, state_file, cur, exc, hist, faults>>

\* a variant that also marks the URL visited on an HTTP error
NavigateHttpError_MarksVisited ==
    /\ pc = "visit"
    /\ faults < MaxFaults
    /\ faults' = faults + 1
    /\ visited_urls' = visited_urls \cup {_normalize_url(cur.url)}
    /\ iter' = [iter EXCEPT !.page = "closed", !.done = TRUE, !.how = "http_error",
                            !.calls = Append(@, Call("goto", "goto"))]
    /\ hist' = [hist EXCEPT !.http_errors = @ \cup {_normalize_url(cur.url)}]
    /\ pc' = "loop"
    /\ UNCHANGED outsideProcess
    /\ UNCHANGED <<storeVars, config, session_id, resume_session_id,
                   queue, stats, state_file, cur, exc>>

\* crawl, lines 139-142: HTTP status >= 400: close the page, continue
NavigateHttpError ==
    /\ pc = "visit"
    /\ faults < MaxFaults
    /\ faults' = faults + 1
    /\ iter' = [iter EXCEPT !.page = "closed", !.done = TRUE, !.how = "http_error",
                            !.calls = Append(@, Call("goto", "goto"))]
    /\ hist' = [hist EXCEPT !.http_errors = @ \cup {_normalize_url(cur.url)}]
    /\ pc' = "loop"
    /\ UNCHANGED outsideProcess
    /\ UNCHANGED <<storeVars, config, session_id, resume_session_id,
                   visited_urls, queue, stats, state_file, cur, exc>>

\* crawl, lines 138 and 198-201: goto raises (timeout, connection error); the
\* handler counts the error and continues, the page is not closed
NavigateRaises ==
    /\ pc = "visit"
    /\ faults < MaxFaults
    /\ faults' = faults + 1
    /\ stats' = [stats EXCEPT !.errors = @ + 1]
    /\ iter' = [iter EXCEPT !.page = "open", !.done = TRUE, !.how = "error",
                            !.calls = Append(@, Call("goto", "goto"))]
    /\ pc' = "loop"
    /\ UNCHANGED outsideProcess
    /\ UNCHANGED <<storeVars, config, session_id, resume_session_id,
                   visited_urls, queue, state_file, cur, exc, hist>>

\* crawl, lines 145-150: no CAPTCHA, or the user solved it and continues
CaptchaPasses ==
    /\ pc = "captcha"
    /\ pc' = "extract"
    /\ UNCHANGED outsideProcess
    /\ UNCHANGED <<storeVars, config, session_id, resume_session_id,
                   visited_urls, queue, stats, state_file, cur, exc, iter, hist,
                   faults>>

\* crawl, lines 147-150: should_skip_url is true: count, close, continue
CaptchaSkips ==
    /\ pc = "captcha"
    /\ faults < MaxFaults
    /\ faults' = faults + 1
    /\ stats' = [stats EXCEPT !.captchas = @ + 1]
    /\ iter' = [iter EXCEPT !.page = "closed", !.done = TRUE, !.how = "captcha_skip"]
    /\ pc' = "loop"
    /\ UNCHANGED outsideProcess
    /\ UNCHANGED <<storeVars, config, session_id, resume_session_id,
                   visited_urls, queue, state_file, cur, exc, hist>>

\* captcha_handler.handle_captcha, lines 228-230: 'abort' raises
\* KeyboardInterrupt, which `except Exception` (line 198) does not catch
CaptchaAborts ==
    /\ pc = "captcha"
    /\ exc' = "KeyboardInterrupt"
    /\ iter' = [iter EXCEPT !.done = TRUE, !.how = "cancelled"]
    /\ pc' = "finally"
    /\ UNCHANGED outsideProcess
    /\ UNCHANGED <<storeVars, config, session_id, resume_session_id,
                   visited_urls, queue, stats, state_file, cur, hist, faults>>

\* How an interrupt of the process (SIGINT) reaches the coroutines run by
\* asyncio.run (cli.py line 115): as KeyboardInterrupt raised in the running
\* coroutine, or, when asyncio cancels the main task, as CancelledError at the
\* await the coroutine is suspended in.
Signals == {"KeyboardInterrupt", "CancelledError"}

\* run, lines 208-215: the exceptions that one of run()'s handlers catches.
\* CancelledError derives from BaseException and is caught by neither.
Handled(e) == e \in {"KeyboardInterrupt", "Exception"}

\* an interrupt delivered while run() is in the strategy phase, or while an
\* iteration awaits the navigation
Interrupt(sig) ==
    /\ pc \in {"run", "visit"}
    /\ exc' = sig
    /\ iter' = IF pc = "run" THEN iter
               ELSE [iter EXCEPT !.done = TRUE, !.how = "cancelled",
                                 !.page = "open"]
    /\ pc' = IF pc = "visit" THEN "finally"
             ELSE IF Handled(sig) THEN "except" ELSE "cleanup"
    /\ UNCHANGED outsideProcess
    /\ UNCHANGED <<storeVars, config, session_id, resume_session_id,
                   visited_urls, queue, stats, state_file, cur, hist, faults>>

\* _validate_url, lines 346-365, for a HEAD that is answered: a proxy is
\* picked, the HEAD is sent, a proxy is picked again and the result marked
ValidateCalls ==
    <<Call("get_next_proxy", "head"), Call("head", "head"),
      Call("get_next_proxy", "head"), Call("mark_result", "head")>>

\* crawl, lines 158-176: _validate_url runs for every extracted PDF when
\* validate_on_discovery is on, stored or not
RECURSIVE ValidationCalls(_, _)
ValidationCalls(pdfs, cfg) ==
    IF pdfs = <<>> \/ ~cfg.validate_on_discovery THEN <<>>
    ELSE ValidateCalls \o ValidationCalls(Tail(pdfs), cfg)

\* crawl, lines 157-185: extract the PDFs, store and validate each, then
\* enqueue the internal links that are not visited
ExtractAndStore ==
    /\ pc = "extract"
    /\ LET path == cur.url.path
           pdfs == _extract_pdfs_from_page(path)
           new == IF (config.max_depth = 0 \/ cur.depth < config.max_depth)
                     /\ config.follow_internal_links
                  THEN NewEntries(_extract_internal_links(path), visited_urls,
                                  cur.depth, cur.url)
                  ELSE <<>>
       IN /\ pdf_links' = StoreAll(pdf_links, pdfs, cur.url, session_id, config)
          /\ queue' = queue \o new
          /\ stats' = [stats EXCEPT !.pdfs_found = @ + Len(pdfs),
                                    !.internal_links_found = @ + Len(new)]
          /\ iter' = [iter EXCEPT !.calls = @ \o ValidationCalls(pdfs, config)]
    /\ pc' = "close"
    /\ UNCHANGED outsideProcess
    /\ UNCHANGED <<sessions, files, clock, config, session_id, resume_session_id,
                   visited_urls, state_file, cur, exc, hist, faults>>

\* crawl, lines 187-196: close the page, mark the URL visited, count it, and
\* checkpoint every save_interval pages
ClosePage ==
    /\ pc = "close"
    /\ visited_urls' = MarkVisited(visited_urls, cur.url)
    /\ stats' = [stats EXCEPT !.pages_visited = @ + 1]
    /\ iter' = [iter EXCEPT !.page = "closed", !.done = TRUE, !.how = "processed"]
    /\ IF (stats.pages_visited + 1) % save_interval = 0
       THEN /\ pc' = "save"
            /\ hist' = [hist EXCEPT !.save_ret = "loop"]
       ELSE /\ pc' = "loop"
            /\ UNCHANGED hist
    /\ UNCHANGED outsideProcess
    /\ UNCHANGED <<storeVars, config, session_id, resume_session_id, queue,
                   state_file, cur, exc, faults>>

\* crawl, lines 187 and 198-201: page.close() raises; the error is counted
ClosePageRaises ==
    /\ pc = "close"
    /\ faults < MaxFaults
    /\ faults' = faults + 1
    /\ stats' = [stats EXCEPT !.errors = @ + 1]
    /\ iter' = [iter EXCEPT !.done = TRUE, !.how = "error"]
    /\ pc' = "loop"
    /\ UNCHANGED outsideProcess
    /\ UNCHANGED <<storeVars, config, session_id, resume_session_id,
                   visited_urls, queue, state_file, cur, exc, hist>>

\* crawl, lines 203-205: finally: close the db session, save the state
CrawlFinally ==
    /\ pc = "finally"
    /\ pc' = "save"
    /\ hist' = [hist EXCEPT !.save_ret = "final"]
    /\ UNCHANGED outsideProcess
    /\ UNCHANGED <<storeVars, config, session_id, resume_session_id,
                   visited_urls, queue, stats, state_file, cur, exc, iter, faults>>

\* _save_state, line 438: open(self.state_file, 'wb') truncates the file
SaveOpen ==
    /\ pc = "save"
    /\ files' = [files EXCEPT ![state_file] = Partial]
    /\ pc' = "writing"
    /\ UNCHANGED outsideProcess
    /\ UNCHANGED <<sessions, pdf_links, clock, config, session_id,
                   resume_session_id, visited_urls, queue, stats, state_file,
                   cur, exc, iter, hist, faults>>

\* where control goes when _save_state returns
AfterSave == IF hist.save_ret = "loop" THEN "loop"
             ELSE IF Handled(exc) THEN "except" ELSE "cleanup"

\* _save_state, lines 439-440: pickle.dump completes
SaveDump ==
    /\ pc = "writing"
    /\ LET state == CheckpointOf(session_id, visited_urls, queue, stats, clock)
       IN  /\ files' = [files EXCEPT ![state_file] = state]
           /\ hist' = [hist EXCEPT
                  !.final_save = IF hist.save_ret = "final" THEN "ok" ELSE @,
                  !.saved = Append(@,
                      [visited_urls |-> state.visited_urls,
                       pages_visited |-> state.stats.pages_visited])]
    /\ pc' = AfterSave
    /\ UNCHANGED outsideProcess
    /\ UNCHANGED <<sessions, pdf_links, clock, config, session_id,
                   resume_session_id, visited_urls, queue, stats, state_file,
                   cur, exc, iter, faults>>

\* _save_state, lines 441-442: the write fails part-way (disk full, I/O
\* error); the exception is logged and swallowed, the file stays as it is
SaveDumpFails ==
    /\ pc = "writing"
    /\ faults < MaxFaults
    /\ faults' = faults + 1
    /\ hist' = [hist EXCEPT !.final_save =
                    IF hist.save_ret = "final" THEN "failed" ELSE @]
    /\ pc' = AfterSave
    /\ UNCHANGED outsideProcess
    /\ UNCHANGED <<storeVars, config, session_id, resume_session_id,
                   visited_urls, queue, stats, state_file, cur, exc, iter>>

\* run, lines 208-215: the handlers mark the session and re-raise
HandleException ==
    /\ pc = "except"
    /\ Handled(exc)
    /\ sessions' = [sessions EXCEPT ![session_id] =
            UpdateSessionStatus(@, IF exc = "KeyboardInterrupt"
                                   THEN "interrupted" ELSE "failed", clock)]
    /\ clock' = clock + 1
    /\ pc' = "cleanup"
    /\ UNCHANGED outsideProcess
    /\ UNCHANGED <<pdf_links, files, config, session_id, resume_session_id,
                   visited_urls, queue, stats, state_file, cur, exc, iter, hist,
                   faults>>

\* a variant of cleanup that marks the session completed whenever it runs
Cleanup_MarksCompleted ==
    /\ pc = "cleanup"
    /\ sessions' = [sessions EXCEPT ![session_id] =
                        UpdateSessionStatus(@, "completed", clock)]
    /\ clock' = clock + 1
    /\ pc' = "exited"
    /\ UNCHANGED outsideProcess
    /\ UNCHANGED <<pdf_links, files, config, session_id, resume_session_id,
                   visited_urls, queue, stats, state_file, cur, exc, iter, hist,
                   faults>>

\* run, lines 216-217, and cleanup: strategies, browser and db session are
\* released; the process ends
Cleanup ==
    /\ pc = "cleanup"
    /\ pc' = "exited"
    /\ UNCHANGED outsideProcess
    /\ UNCHANGED <<storeVars, config, session_id, resume_session_id,
                   visited_urls, queue, stats, state_file, cur, exc, iter, hist,
                   faults>>

Next ==
    \/ \E rid \in {0} \cup Interrupted : Start(rid)
    \/ CrawlerInitialize
    \/ Dequeue
    \/ LoopExit
    \/ WaitReturns
    \/ WaitRaises
    \/ NavigateOk
    \/ NavigateHttpError
    \/ NavigateRaises
    \/ CaptchaPasses
    \/ CaptchaSkips
    \/ CaptchaAborts
    \/ \E sig \in Signals : Interrupt(sig)
    \/ ExtractAndStore
    \/ ClosePage
    \/ ClosePageRaises
    \/ CrawlFinally
    \/ SaveOpen
    \/ SaveDump
    \/ SaveDumpFails
    \/ HandleException
    \/ Cleanup

(***************************************************************************)
(* DiscoveryScanner: the lifecycle of the seed strategies                  *)
(***************************************************************************)
MaxEnabled == 3     \* strategies enabled by the configuration

\* _load_strategies, lines 286-293: the available strategies, in order
available == <<"sitemap", "pattern_generator", "search_explorer", "taxonomy",
               "form_discovery", "archive_probe">>

Range(seq) == {seq[i] : i \in 1..Len(seq)}

\* _load_strategies, lines 294-307: the enabled strategies, in list order
EnabledOf(en) == SelectSeq(available, LAMBDA n : n \in en)

\* the seed URLs a strategy's discover() returns when it does not raise
StrategySeeds(name) ==
    CASE name = "sitemap" -> <<"/s1", "/s2">>
      [] name = "pattern_generator" -> <<"/p1">>
      [] name = "search_explorer" -> <<"/s1", "/q1">>
      [] name = "taxonomy" -> <<>>
      [] name = "form_discovery" -> <<"/f1">>
      [] name = "archive_probe" -> <<"/a1", "/p1">>

\* _get_seed_urls, lines 275-277: list(dict.fromkeys(urls))
RECURSIVE DedupKeepFirst(_, _)
DedupKeepFirst(urls, seen) ==
    IF urls = <<>> THEN <<>>
    ELSE IF Head(urls) \in seen THEN DedupKeepFirst(Tail(urls), seen)
    ELSE <<Head(urls)>> \o DedupKeepFirst(Tail(urls), seen \cup {Head(urls)})

\* _get_seed_urls, lines 250-254: urls.extend(result.seed_urls) per result
RECURSIVE ExtendAll(_)
ExtendAll(results) ==
    IF results = <<>> THEN <<>>
    ELSE Head(results).seed_urls \o ExtendAll(Tail(results))

\* _get_seed_urls, lines 262-273: base_url/path of the enabled sites
ConfigSeeds == <<"/">>

StratInit ==
    /\ \E en \in SUBSET Range(available) :
          /\ Cardinality(en) <= MaxEnabled
          /\ strategies = EnabledOf(en)
    /\ st_pc = "loaded"
    /\ st_failed = {}
    /\ st_ran = {}
    /\ strategy_results = <<>>
    /\ st_seed_urls = <<>>

\* initialize, lines 161-163: asyncio.gather over every strategy's
\* initialize(), without return_exceptions: when any of them raises, gather
\* raises, initialize() raises, and the caller never gets to run().
StrategiesInitialize ==
    /\ st_pc = "loaded"
    /\ \E F \in SUBSET Range(strategies) :
          /\ st_failed' = {[strategy |-> n, step |-> "initialize"] : n \in F}
          /\ st_pc' = IF F = {} THEN "initialized" ELSE "initialize_raised"
    /\ UNCHANGED <<strategies, st_ran, strategy_results, st_seed_urls>>
    /\ UNCHANGED outsideStrategies

\* _run_strategies, lines 312-320: the next strategy's discover() returns;
\* a StrategyResult is always truthy, so it is appended
StrategyDiscovers ==
    /\ st_pc = "initialized"
    /\ Cardinality(st_ran) < Len(strategies)
    /\ LET n == strategies[Cardinality(st_ran) + 1] IN
          /\ st_ran' = st_ran \cup {n}
          /\ strategy_results' = Append(strategy_results,
                 [strategy |-> n, seed_urls |-> StrategySeeds(n)])
    /\ UNCHANGED <<strategies, st_pc, st_failed, st_seed_urls>>
    /\ UNCHANGED outsideStrategies

\* _run_strategies, lines 321-322: the next strategy's discover() raises; the
\* error is logged and the loop goes on
StrategyDiscoverRaises ==
    /\ st_pc = "initialized"
    /\ Cardinality(st_ran) < Len(strategies)
    /\ LET n == strategies[Cardinality(st_ran) + 1] IN
          /\ st_ran' = st_ran \cup {n}
          /\ st_failed' = st_failed \cup {[strategy |-> n, step |-> "discover"]}
    /\ UNCHANGED <<strategies, st_pc, strategy_results, st_seed_urls>>
    /\ UNCHANGED outsideStrategies

\* run, line 186: _get_seed_urls over the results and the configured paths
GetSeedUrls ==
    /\ st_pc = "initialized"
    /\ Cardinality(st_ran) = Len(strategies)
    /\ st_seed_urls' = DedupKeepFirst(ExtendAll(strategy_results) \o ConfigSeeds, {})
    /\ st_pc' = "seeded"
    /\ UNCHANGED <<strategies, st_failed, st_ran, strategy_results>>
    /\ UNCHANGED outsideStrategies

\* cleanup, lines 360-361: asyncio.gather over every strategy's cleanup()
StrategiesCleanup ==
    /\ st_pc = "seeded"
    /\ \E F \in SUBSET Range(strategies) :
          /\ st_failed' = st_failed \cup
                 {[strategy |-> n, step |-> "cleanup"] : n \in F}
          /\ st_pc' = IF F = {} THEN "cleaned" ELSE "cleanup_raised"
    /\ UNCHANGED <<strategies, st_ran, strategy_results, st_seed_urls>>
    /\ UNCHANGED outsideStrategies

NextStrategies ==
    \/ StrategiesInitialize
    \/ StrategyDiscovers
    \/ StrategyDiscoverRaises
    \/ GetSeedUrls
    \/ StrategiesCleanup

\* the strategies are not part of Spec: their seeds are SeedUrls
StratUnused ==
    /\ strategies = <<>> /\ st_pc = "unused" /\ st_failed = {} /\ st_ran = {}
    /\ strategy_results = <<>> /\ st_seed_urls = <<>>

(***************************************************************************)
(* ProxyManager                                                            *)
(*                                                                         *)
(* A score is a Python float; it is kept exactly, in 1/ScoreScale points.  *)
(* Times are in whole hours.  avg_response_time is kept as the class       *)
(* update_score reads: "fast" (<= 2 s), "medium" (<= 5 s) or "slow".       *)
(***************************************************************************)
MaxProxyRequests == 3   \* requests recorded per proxy record
MaxProxyHours == 6      \* hours of model time
MaxProxyCalls == 2      \* calls made on ProxyManager objects after initialize()

RECURSIVE Fact(_)
Fact(n) == IF n <= 1 THEN 1 ELSE n * Fact(n - 1)

\* every total_requests divides ScoreScale
ScoreScale == Fact(MaxProxyRequests)

ProxyUrls == {"http://1.1.1.1:80", "socks5://2.2.2.2:1080"}
ResponseClasses == <<"fast", "medium", "slow">>
Strategies == {"weighted", "round_robin", "random", "best"}

\* ProxyRecord, lines 19-40: a record as _fetch_source creates it
ProxyRecord(url) ==
    [proxy_url |-> url, score |-> 50 * ScoreScale, total_requests |-> 0,
     successful_requests |-> 0, failed_requests |-> 0,
     avg_response_time |-> "none", last_used |-> NoTime,
     last_success |-> NoTime, last_error |-> NoTime, is_healthy |-> TRUE]

\* a variant of success_rate that rates an unused proxy 0.0
SuccessWeight_UnusedIsZero(p) ==
    IF p.total_requests = 0 THEN 0
    ELSE (p.successful_requests * 50 * ScoreScale) \div p.total_requests

\* success_rate, lines 42-46, times 50 points
SuccessWeight(p) ==
    IF p.total_requests = 0 THEN 50 * ScoreScale
    ELSE (p.successful_requests * 50 * ScoreScale) \div p.total_requests

\* update_score, line 80: max(0, min(100, ...))
Clamp(x) == Max(0, Min(100 * ScoreScale, x))

\* update_score, lines 48-80: the new score of p at time t
Score(p, t) ==
    LET response_weight ==
            CASE p.avg_response_time = "none" -> 0
              [] p.avg_response_time = "fast" -> 25
              [] p.avg_response_time = "medium" -> 15
              [] p.avg_response_time = "slow" -> 5
        recency_weight ==
            IF p.last_success = NoTime THEN 0
            ELSE IF t - p.last_success < 1 THEN 15
            ELSE IF t - p.last_success < 6 THEN 10
            ELSE 0
        failure_penalty ==
            IF p.last_error = NoTime THEN 0
            ELSE IF t - p.last_error < 1 THEN 20
            ELSE IF t - p.last_error < 6 THEN 10
            ELSE 0
    IN  Clamp(SuccessWeight(p)
              + (response_weight + recency_weight - failure_penalty) * ScoreScale)

update_score(p, t) == [p EXCEPT !.score = Score(p, t)]

\* the thresholds of refresh_pool line 190 / mark_result line 379, and of
\* get_next_proxy line 327
PruneBelow == 10
HealthyFrom == 30

\* a variant of the prune test that keeps every proxy
Keep_Everything(p) == TRUE

\* refresh_pool, line 190: the proxies that stay in the pool
Keep(p) == p.score >= PruneBelow * ScoreScale

\* mark_result, line 386: the cache is saved every so many requests of a
\* proxy.  The source says 10; the model scales it to MaxProxyRequests.
cache_save_every == 2

\* initialize, line 124: min_proxies_required.  The configuration default is
\* 100; the model scales it to the size of the modelled pool.
min_proxies_required == 1

NoProxy == ProxyRecord("")

PmLast(op, found, proxy) ==
    [op |-> op, found |-> found, proxy |-> proxy]

\* how the validation request of one fetched proxy ends
Outcomes == {"ok", "http_error", "raises", "raises_after_ok"}

\* _validate_proxies.test_proxy, lines 281-308: the record after its test.
\* "raises_after_ok" is an exception raised while the two `async with` blocks
\* are left (response release, session close), after the status-200 branch
\* has run: the except clause of line 303 covers that too.
Tested(p, outcome, cls, t) ==
    LET ok == [p EXCEPT !.successful_requests = @ + 1, !.total_requests = @ + 1,
                        !.last_success = t, !.avg_response_time = cls,
                        !.is_healthy = TRUE]
        Raised(q) == [q EXCEPT !.failed_requests = @ + 1, !.total_requests = @ + 1,
                               !.last_error = t, !.is_healthy = FALSE]
    IN  CASE outcome = "ok" -> ok
          [] outcome = "http_error" ->
                [p EXCEPT !.failed_requests = @ + 1, !.total_requests = @ + 1,
                          !.last_error = t]
          [] outcome = "raises" -> Raised(p)
          [] outcome = "raises_after_ok" -> Raised(ok)

\* line 297: the proxies appended to `validated`
InValidated(outcome) == outcome \in {"ok", "raises_after_ok"}

\* refresh_pool, line 187: sort(key=score, reverse=True), a stable sort
RECURSIVE InsertByScore(_, _)
InsertByScore(sorted, p) ==
    IF sorted = <<>> THEN <<p>>
    ELSE IF Head(sorted).score >= p.score
         THEN <<Head(sorted)>> \o InsertByScore(Tail(sorted), p)
         ELSE <<p>> \o sorted

RECURSIVE SortByScore(_, _)
SortByScore(pool, sorted) ==
    IF pool = <<>> THEN sorted
    ELSE SortByScore(Tail(pool), InsertByScore(sorted, Head(pool)))

\* refresh_pool, lines 177-180: the validated proxies whose URL is not in the
\* pool yet (URLs repeated within the batch are all taken)
NewProxies(pool, validated) ==
    SelectSeq(validated,
              LAMBDA p : \A i \in 1..Len(pool) : pool[i].proxy_url # p.proxy_url)

\* refresh_pool, lines 177-190: merge, rescore, sort, prune
Refreshed(pool, validated, t) ==
    LET merged == pool \o NewProxies(pool, validated)
        scored == [i \in 1..Len(merged) |-> update_score(merged[i], t)]
    IN  SelectSeq(SortByScore(scored, <<>>), Keep)

\* the batches _fetch_all_sources returns, each proxy with the outcome and
\* the response time of its validation.  A batch names a proxy URL once, and
\* the validations complete in the order of ProxyUrlOrder.
ProxyUrlOrder == <<"http://1.1.1.1:80", "socks5://2.2.2.2:1080">>
Fetched ==
    {b \in [url : ProxyUrls, outcome : Outcomes, cls : {"none", "fast", "slow"}] :
        b.cls = "none" <=> b.outcome \in {"http_error", "raises"}}
Batches ==
    {<<>>} \cup {<<b>> : b \in Fetched}
           \cup {<<pair[1], pair[2]>> :
                    pair \in {q \in Fetched \X Fetched :
                                 /\ q[1].url = ProxyUrlOrder[1]
                                 /\ q[2].url = ProxyUrlOrder[2]}}

\* the batches in which the sources list an endpoint more than once (two
\* sources that share it, or one source with a repeated line): one record
\* per listing, each validated on its own
RepeatedBatches ==
    {<<pair[1], pair[2]>> :
        pair \in {q \in Fetched \X Fetched : q[1].url = q[2].url}}

ValidatedOf(batch, t) ==
    LET tested == [i \in 1..Len(batch) |->
                      [outcome |-> batch[i].outcome,
                       proxy |-> Tested(ProxyRecord(batch[i].url),
                                        batch[i].outcome, batch[i].cls, t)]]
        kept == SelectSeq(tested, LAMBDA x : InValidated(x.outcome))
    IN  [i \in 1..Len(kept) |-> kept[i].proxy]

ProxyInit ==
    /\ proxies = <<>>
    /\ round_robin_index = 0
    /\ pm_cache = <<>>
    /\ pm_now = 0
    /\ pm_last = PmLast("new", FALSE, NoProxy)
    /\ pm_calls = 0

\* initialize, lines 118-134: the cache when it holds enough proxies, else a
\* refresh, over one of the batches `fetched` that the sources may return
PMInitializeFrom(fetched) ==
    /\ pm_last.op = "new"
    /\ UNCHANGED pm_calls
    /\ IF Len(pm_cache) >= min_proxies_required
       THEN /\ proxies' = pm_cache
            /\ UNCHANGED pm_cache
       ELSE \E batch \in fetched :
               /\ proxies' = Refreshed(proxies, ValidatedOf(batch, pm_now), pm_now)
               /\ pm_cache' = proxies'
    /\ pm_last' = PmLast("initialize", FALSE, NoProxy)
    /\ UNCHANGED <<round_robin_index, pm_now>>
    /\ UNCHANGED outsideProxies

PMInitialize == PMInitializeFrom(Batches)

\* refresh_pool, lines 167-199, over one of the batches `fetched`
RefreshPoolFrom(fetched) ==
    /\ pm_calls < MaxProxyCalls
    /\ pm_calls' = pm_calls + 1
    /\ pm_last.op # "new"
    /\ \E batch \in fetched :
          /\ proxies' = Refreshed(proxies, ValidatedOf(batch, pm_now), pm_now)
          /\ pm_cache' = proxies'
    /\ pm_last' = PmLast("refresh_pool", FALSE, NoProxy)
    /\ UNCHANGED <<round_robin_index, pm_now>>
    /\ UNCHANGED outsideProxies

RefreshPool == RefreshPoolFrom(Batches)

\* initialize() and refresh_pool() when the sources may also list an
\* endpoint more than once
PMInitializeOverSources == PMInitializeFrom(Batches \cup RepeatedBatches)
RefreshPoolOverSources == RefreshPoolFrom(Batches \cup RepeatedBatches)

\* a variant of the candidate test that looks at the score only
IsCandidate_ScoreOnly(p) == p.score >= HealthyFrom * ScoreScale

\* get_next_proxy, line 327: a proxy the selection prefers
IsCandidate(p) == p.is_healthy /\ p.score >= HealthyFrom * ScoreScale

\* get_next_proxy, lines 327-330: the pool positions to choose from
Candidates(pool) ==
    LET healthy == {i \in 1..Len(pool) : IsCandidate(pool[i])}
    IN  IF healthy = {} THEN 1..Len(pool) ELSE healthy

\* the k-th smallest member of a set of positions
RECURSIVE Nth(_, _)
Nth(S, k) ==
    LET m == CHOOSE x \in S : \A y \in S : x <= y
    IN  IF k = 1 THEN m ELSE Nth(S \ {m}, k - 1)

\* get_next_proxy, lines 316-348
GetNextProxy(strategy) ==
    /\ pm_calls < MaxProxyCalls
    /\ pm_calls' = pm_calls + 1
    /\ pm_last.op # "new"
    /\ IF proxies = <<>>
       THEN /\ pm_last' = PmLast("get_next_proxy", FALSE, NoProxy)
            /\ UNCHANGED <<proxies, round_robin_index>>
       ELSE LET healthy == Candidates(proxies)
                choices ==
                    CASE strategy \in {"weighted", "random"} -> healthy
                      [] strategy = "round_robin" ->
                            {Nth(healthy,
                                 (round_robin_index % Cardinality(healthy)) + 1)}
                      [] strategy = "best" -> {Nth(healthy, 1)}
            IN  \E i \in choices :
                   /\ proxies' = [proxies EXCEPT ![i].last_used = pm_now]
                   /\ pm_last' = PmLast("get_next_proxy", TRUE, proxies'[i])
                   /\ round_robin_index' =
                         IF strategy = "round_robin"
                         THEN round_robin_index + 1
                         ELSE round_robin_index
    /\ UNCHANGED <<pm_cache, pm_now>>
    /\ UNCHANGED outsideProxies

\* list.remove: the list without its first element equal to p
RECURSIVE RemoveFirst(_, _)
RemoveFirst(pool, p) ==
    IF pool = <<>> THEN <<>>
    ELSE IF Head(pool) = p THEN Tail(pool)
    ELSE <<Head(pool)>> \o RemoveFirst(Tail(pool), p)

\* the classes a rolling average of a value of class a with one of class b
\* can fall in: those from a to b
Between(a, b) ==
    LET pos(c) == CHOOSE i \in 1..Len(ResponseClasses) : ResponseClasses[i] = c
    IN  {ResponseClasses[i] : i \in Min(pos(a), pos(b))..Max(pos(a), pos(b))}

\* a variant of mark_result's counting that leaves total_requests alone
Counted_NoTotal(p, success) ==
    IF success THEN [p EXCEPT !.successful_requests = @ + 1]
    ELSE [p EXCEPT !.failed_requests = @ + 1]

\* mark_result, lines 360-362 and 371: the counters
Counted(p, success) ==
    IF success
    THEN [p EXCEPT !.total_requests = @ + 1, !.successful_requests = @ + 1]
    ELSE [p EXCEPT !.total_requests = @ + 1, !.failed_requests = @ + 1]

\* mark_result, lines 360-383, at time t on the pool member at position i
\* with the rolling average avg: the record as marked, and the pool after
Marked(pool, i, success, avg, t) ==
    LET counted == Counted(pool[i], success)
        timed == IF success
                 THEN [counted EXCEPT !.last_success = t, !.avg_response_time = avg]
                 ELSE [counted EXCEPT !.last_error = t]
        scored == update_score(timed, t)
        marked == IF Keep(scored) THEN scored
                  ELSE [scored EXCEPT !.is_healthy = FALSE]
        after == [pool EXCEPT ![i] = marked]
    IN  [proxy |-> marked,
         proxies |-> IF Keep(scored) THEN after ELSE RemoveFirst(after, marked)]

\* mark_result, lines 350-387, on the pool member at position i (the object
\* a caller got from get_next_proxy)
MarkResult(i, success, response_time) ==
    /\ pm_calls < MaxProxyCalls
    /\ pm_calls' = pm_calls + 1
    /\ pm_last.op # "new"
    /\ i \in 1..Len(proxies)
    /\ proxies[i].total_requests < MaxProxyRequests
    /\ \E avg \in IF ~success \/ response_time = "none"
                  THEN {proxies[i].avg_response_time}
                  ELSE IF proxies[i].avg_response_time = "none"
                  THEN {response_time}
                  ELSE Between(proxies[i].avg_response_time, response_time) :
          LET m == Marked(proxies, i, success, avg, pm_now)
          IN  /\ proxies' = m.proxies
              /\ pm_cache' = IF m.proxy.total_requests % cache_save_every = 0
                             THEN proxies' ELSE pm_cache
              /\ pm_last' = PmLast("mark_result", TRUE, m.proxy)
    /\ UNCHANGED <<round_robin_index, pm_now>>
    /\ UNCHANGED outsideProxies

\* datetime.utcnow() advances between calls
TickHours == {3}
PMTick ==
    \E d \in TickHours :
        /\ pm_now + d <= MaxProxyHours
        /\ pm_now' = pm_now + d
        /\ UNCHANGED <<proxies, round_robin_index, pm_cache, pm_last, pm_calls>>
        /\ UNCHANGED outsideProxies

\* __init__, lines 94-116: a later process constructs a new manager over the
\* same cache file
PMRestart ==
    /\ pm_calls < MaxProxyCalls
    /\ pm_calls' = pm_calls + 1
    /\ pm_last.op # "new"
    /\ proxies' = <<>>
    /\ round_robin_index' = 0
    /\ pm_last' = PmLast("new", FALSE, NoProxy)
    /\ UNCHANGED <<pm_cache, pm_now>>
    /\ UNCHANGED outsideProxies

\* DeepCrawler._validate_url, lines 346-368, on the proxy manager: a proxy is
\* picked with the default strategy (weighted random over the candidates)
\* and the HEAD is sent through it; when the HEAD is answered, a proxy is
\* picked again and mark_result is called on that one; an exception of the
\* HEAD is caught at line 367 and nothing is marked.  pm_last keeps the
\* proxy the HEAD went through, the URL of the proxy that was marked and the
\* number of mark_result calls.
ValidateUrl(head) ==
    /\ pm_calls < MaxProxyCalls
    /\ pm_calls' = pm_calls + 1
    /\ pm_last.op # "new"
    /\ \A k \in 1..Len(proxies) : proxies[k].total_requests < MaxProxyRequests
    /\ IF proxies = <<>>
       THEN /\ pm_last' = [op |-> "_validate_url", found |-> FALSE,
                           proxy |-> NoProxy, head |-> head, marks |-> 0,
                           marked |-> "none"]
            /\ UNCHANGED <<proxies, pm_cache>>
       ELSE \E i \in Candidates(proxies) :
              LET picked == [proxies EXCEPT ![i].last_used = pm_now] IN
              IF head = "raises"
              THEN /\ proxies' = picked
                   /\ pm_last' = [op |-> "_validate_url", found |-> TRUE,
                                  proxy |-> picked[i], head |-> head,
                                  marks |-> 0, marked |-> "none"]
                   /\ UNCHANGED pm_cache
              ELSE \E j \in Candidates(picked) :
                     LET again == [picked EXCEPT ![j].last_used = pm_now]
                         m == Marked(again, j, head = "200",
                                     again[j].avg_response_time, pm_now)
                     IN  /\ proxies' = m.proxies
                         /\ pm_cache' =
                               IF m.proxy.total_requests % cache_save_every = 0
                               THEN proxies' ELSE pm_cache
                         /\ pm_last' = [op |-> "_validate_url", found |-> TRUE,
                                        proxy |-> picked[i], head |-> head,
                                        marks |-> 1,
                                        marked |-> m.proxy.proxy_url]
    /\ UNCHANGED <<round_robin_index, pm_now>>
    /\ UNCHANGED outsideProxies

\* the validator over a pool that initialize() has built
NextValidator ==
    \/ PMInitialize
    \/ \E head \in HeadOutcomes : ValidateUrl(head)
    \/ PMTick

\* the pool under initialize() and refresh_pool() alone, by one process
\* after another
NextSources ==
    \/ PMInitializeOverSources
    \/ RefreshPoolOverSources
    \/ PMTick
    \/ PMRestart

\* mark_result() calls alone on a pool that initialize() has built: pm_calls
\* then counts the mark_result calls made on the pool
NextMarks ==
    \/ PMInitialize
    \/ \E i \in 1..Len(proxies), success \in BOOLEAN,
          response_time \in {"none", "fast", "slow"} :
             MarkResult(i, success, response_time)
    \/ PMTick

NextProxies ==
    \/ PMInitialize
    \/ RefreshPool
    \/ \E strategy \in Strategies : GetNextProxy(strategy)
    \/ \E i \in 1..Len(proxies), success \in BOOLEAN,
          response_time \in {"none", "fast", "slow"} :
             MarkResult(i, success, response_time)
    \/ PMTick
    \/ PMRestart

(***************************************************************************)
(* Pure functions: the link extractor's deduplication                      *)
(***************************************************************************)
MaxFound == 2     \* PDF references one method finds on a page

NoResult == [done |-> FALSE]

\* the functions are not part of the other specifications
FnUnused == fn_in = [op |-> "unused"] /\ fn_out = NoResult

PdfUrls == {X_pdf, X_pdf2, Y_pdf}
FoundLists == UNION {[1..n -> PdfUrls] : n \in 0..MaxFound}

ExtractInputs ==
    [op : {"_extract_pdfs_from_page"}, css : FoundLists, regex : FoundLists,
     script : FoundLists]

\* _extract_pdfs_from_page returns
ExtractPdfsFromPage ==
    /\ fn_in.op = "_extract_pdfs_from_page"
    /\ ~fn_out.done
    /\ fn_out' = [done |-> TRUE,
                  pdfs |-> ExtractPdfs(fn_in.css, fn_in.regex, fn_in.script)]
    /\ UNCHANGED fn_in
    /\ UNCHANGED outsideFunctions

(***************************************************************************)
(* Pure functions: _normalize_url on the text of a URL                     *)
(*                                                                         *)
(* A URL is the sequence of its characters.  The alphabet has a lower-case *)
(* letter, an upper-case letter, a digit and the delimiters urlparse looks *)
(* for; it leaves out ";", brackets, white space and control characters.   *)
(***************************************************************************)
MaxUrlLen == 4    \* characters of an input URL

UrlChars == {"a", "A", "1", ":", "/", "?", "#"}
Letters == {"a", "A"}
SchemeChars == {"a", "A", "1"}
Texts == UNION {[1..n -> UrlChars] : n \in 0..MaxUrlLen}

\* str.lower()
lower(s) == [i \in 1..Len(s) |-> IF s[i] = "A" THEN "a" ELSE s[i]]

\* the first position from `start` on of a character of `chars`, or 0
Find(s, chars, start) ==
    LET hits == {i \in start..Len(s) : s[i] \in chars}
    IN  IF hits = {} THEN 0 ELSE CHOOSE i \in hits : \A j \in hits : i <= j

\* urllib.parse.urlsplit: the text before the first ":" is the scheme when
\* it is not empty, starts with a letter and has scheme characters only
HasScheme(url, i) ==
    /\ i > 1
    /\ url[1] \in Letters
    /\ \A k \in 1..(i - 1) : url[k] \in SchemeChars

\* urllib.parse.urlparse as line 419 calls it: scheme, netloc and path
urlparse(url) ==
    LET i == Find(url, {":"}, 1)
        scheme == IF HasScheme(url, i) THEN lower(SubSeq(url, 1, i - 1)) ELSE <<>>
        rest == IF HasScheme(url, i) THEN SubSeq(url, i + 1, Len(url)) ELSE url
        has_netloc == Len(rest) >= 2 /\ rest[1] = "/" /\ rest[2] = "/"
        delim == LET d == Find(rest, {"/", "?", "#"}, 3)
                 IN  IF d = 0 THEN Len(rest) + 1 ELSE d
        netloc == IF has_netloc THEN SubSeq(rest, 3, delim - 1) ELSE <<>>
        after == IF has_netloc THEN SubSeq(rest, delim, Len(rest)) ELSE rest
        f == Find(after, {"#"}, 1)
        nofrag == IF f = 0 THEN after ELSE SubSeq(after, 1, f - 1)
        q == Find(nofrag, {"?"}, 1)
        path == IF q = 0 THEN nofrag ELSE SubSeq(nofrag, 1, q - 1)
    IN  [scheme |-> scheme, netloc |-> netloc, path |-> path]

\* _normalize_url, lines 419-422, on the text of a URL
NormalizeText(url) ==
    LET parsed == urlparse(lower(url))
    IN  parsed.scheme \o <<":", "/", "/">> \o parsed.netloc \o parsed.path

NormalizeInputs == [op : {"_normalize_url"}, url : Texts]

\* _normalize_url returns; the caller normalizes the result once more
NormalizeUrl ==
    /\ fn_in.op = "_normalize_url"
    /\ ~fn_out.done
    /\ fn_out' = [done |-> TRUE,
                  once |-> NormalizeText(fn_in.url),
                  twice |-> NormalizeText(NormalizeText(fn_in.url))]
    /\ UNCHANGED fn_in
    /\ UNCHANGED outsideFunctions

(***************************************************************************)
(* PatternGenerator (scraper/strategies/pattern_generator.py)              *)
(*                                                                         *)
(* A stored URL is http://h/ followed by its path; the path is the         *)
(* sequence of the segments path.split('/') gives, the empty one before    *)
(* the first "/" included.  A segment is a name, a numeric token (value    *)
(* and width; value NoSeq when it has none) and an extension.              *)
(***************************************************************************)
MaxSeq == 4        \* largest sequence value of a stored URL
MaxSamples == 3    \* stored URLs
MaxCap == 2        \* largest max_urls configured

NoSeq == -1        \* the file name has no numeric token
SEQ == -2          \* the {SEQ} placeholder of a skeleton

Segment(pre, value, width, ext) ==
    [pre |-> pre, value |-> value, width |-> width, ext |-> ext]
EmptySegment == Segment("", NoSeq, 0, "")
Dirs == {<<EmptySegment>>, <<EmptySegment, Segment("docs", NoSeq, 0, "")>>}
FileNames ==
    {Segment("doc_", v, w, ".pdf") : v \in 1..MaxSeq, w \in 1..2}
        \cup {Segment("doc_", 1, 1, ".htm"), Segment("index", NoSeq, 0, ".pdf")}
StoredUrls == {[path |-> d \o <<f>>] : d \in Dirs, f \in FileNames}

RECURSIVE DigitsOf(_)
DigitsOf(n) == IF n < 10 THEN <<n>> ELSE DigitsOf(n \div 10) \o <<n % 10>>

\* f"{seq:0{width}d}": the digits of seq, padded with zeros to the width
Padded(seq, width) ==
    LET digits == DigitsOf(seq)
    IN  [i \in 1..(IF width > Len(digits) THEN width - Len(digits) ELSE 0) |-> 0]
            \o digits

\* the characters of the model's names, as code points
CodePoints(name) ==
    CASE name = "" -> <<>>
      [] name = "docs" -> <<100, 111, 99, 115>>
      [] name = "doc_" -> <<100, 111, 99, 95>>
      [] name = "index" -> <<105, 110, 100, 101, 120>>
      [] name = ".pdf" -> <<46, 112, 100, 102>>
      [] name = ".htm" -> <<46, 104, 116, 109>>

\* the text of a segment and of a path, as code points
SegmentText(seg) ==
    CodePoints(seg.pre)
        \o (IF seg.value = NoSeq THEN <<>>
            ELSE [i \in 1..Len(Padded(seg.value, seg.width)) |->
                     48 + Padded(seg.value, seg.width)[i]])
        \o CodePoints(seg.ext)

RECURSIVE PathText(_)
PathText(path) ==
    IF Len(path) = 1 THEN SegmentText(path[1])
    ELSE SegmentText(Head(path)) \o <<47>> \o PathText(Tail(path))

\* the order of str
RECURSIVE LexLess(_, _)
LexLess(a, b) ==
    IF b = <<>> THEN FALSE
    ELSE IF a = <<>> THEN TRUE
    ELSE IF Head(a) # Head(b) THEN Head(a) < Head(b)
    ELSE LexLess(Tail(a), Tail(b))

\* _filter_urls, line 81: sorted(set(urls)); no include or exclude patterns
RECURSIVE _filter_urls(_)
_filter_urls(urls) ==
    IF urls = {} THEN <<>>
    ELSE LET first == CHOOSE u \in urls :
                         \A v \in urls \ {u} : LexLess(PathText(u.path), PathText(v.path))
         IN  <<first>> \o _filter_urls(urls \ {first})

Last(seq) == seq[Len(seq)]

\* lines 97-104: the URLs _generate_missing groups
HasSequence(url) == Last(url.path).ext = ".pdf" /\ Last(url.path).value # NoSeq

\* lines 114-121: the skeleton path of a URL
Skeleton(url) ==
    [url.path EXCEPT ![Len(url.path)] = [@ EXCEPT !.value = SEQ, !.width = 0]]

\* line 142: skeleton.replace('{SEQ}', seq_str), where skeleton is the
\* skeleton path of the group: the segments of the text it gives
NewFilename(skeleton, seq, width) ==
    [skeleton EXCEPT ![Len(skeleton)] =
        [@ EXCEPT !.value = seq, !.width = Len(Padded(seq, width))]]

\* lines 144-151: the template URL with the last part of its path replaced
NewUrl(template_url, skeleton, seq, width) ==
    [template_url EXCEPT !.path =
        SubSeq(template_url.path, 1, Len(template_url.path) - 1)
            \o NewFilename(skeleton, seq, width)]

\* lines 126-152: what one group generates, in increasing sequence order
RECURSIVE FillFrom(_, _, _, _, _)
FillFrom(seq, max_seq, existing_set, template_url, skeleton) ==
    IF seq > max_seq THEN <<>>
    ELSE (IF seq \in existing_set THEN <<>>
          ELSE <<NewUrl(template_url, skeleton, seq, Last(template_url.path).width)>>)
         \o FillFrom(seq + 1, max_seq, existing_set, template_url, skeleton)

GroupFill(items, skeleton) ==
    IF Len(items) < 2 THEN <<>>
    ELSE LET seqs == {Last(items[i].path).value : i \in 1..Len(items)}
             min_seq == CHOOSE x \in seqs : \A y \in seqs : x <= y
             max_seq == CHOOSE x \in seqs : \A y \in seqs : x >= y
         IN  FillFrom(min_seq, max_seq, seqs, items[1], skeleton)

\* the groups in the order the dict got its keys
RECURSIVE AllFills(_, _)
AllFills(skeletons, urls) ==
    IF skeletons = <<>> THEN <<>>
    ELSE GroupFill(SelectSeq(urls, LAMBDA u : Skeleton(u) = Head(skeletons)),
                   Head(skeletons))
         \o AllFills(Tail(skeletons), urls)

\* lines 92-123: the keys of `groups`, in the order the dict got them
RECURSIVE Skeletons(_, _)
Skeletons(urls, seen) ==
    IF urls = <<>> THEN <<>>
    ELSE IF Skeleton(Head(urls)) \in seen THEN Skeletons(Tail(urls), seen)
    ELSE <<Skeleton(Head(urls))>>
         \o Skeletons(Tail(urls), seen \cup {Skeleton(Head(urls))})

Take(seq, n) == SubSeq(seq, 1, IF n < Len(seq) THEN n ELSE Len(seq))

\* _generate_missing, lines 89-159: the loops stop once max_urls URLs are
\* generated, which they test after each append
_generate_missing(urls, max_urls) ==
    LET grouped == SelectSeq(urls, HasSequence)
    IN  Take(AllFills(Skeletons(grouped, {}), grouped),
             IF max_urls < 1 THEN 1 ELSE max_urls)

\* discover, lines 36-57, of an enabled generator: the seed URLs
discover(urls, min_samples, max_urls) ==
    IF Cardinality(urls) < min_samples THEN <<>>
    ELSE Take(_generate_missing(_filter_urls(urls), max_urls), max_urls)

GenerateInputs ==
    [op : {"discover"},
     urls : {S \in SUBSET StoredUrls : Cardinality(S) <= MaxSamples},
     min_samples : {2, MaxSamples},
     max_urls : 1..MaxCap]

\* PatternGenerator.discover returns
Discover ==
    /\ fn_in.op = "discover"
    /\ ~fn_out.done
    /\ fn_out' = [done |-> TRUE,
                  seed_urls |-> discover(fn_in.urls, fn_in.min_samples,
                                         fn_in.max_urls)]
    /\ UNCHANGED fn_in
    /\ UNCHANGED outsideFunctions

(***************************************************************************)
(* Pure functions: the checkpoint file, read back and written again        *)
(***************************************************************************)
MaxSaved == 2     \* visited URLs, and queue entries, of a drawn checkpoint

\* list(a_set), line 431: the elements once each, in the set's iteration
\* order, which depends on the process (string hashing is salted)
Orders(S) ==
    {s \in [1..Cardinality(S) -> S] :
        \A i, j \in 1..Cardinality(S) : s[i] = s[j] => i = j}

\* DeepCrawler.__init__ and initialize(session_id, ...) up to line 80: the
\* crawler that is about to load crawler_state_<session_id>.pkl
NewCrawler(sid) ==
    [session_id |-> sid, visited_urls |-> {}, queue |-> <<>>, stats |-> ZeroStats]

\* dict.update, line 452
DictUpdate(d, other) ==
    [k \in DOMAIN d \cup DOMAIN other |->
        IF k \in DOMAIN other THEN other[k] ELSE d[k]]

\* a variant of _load_state that leaves the counters of the new crawler
_load_state_KeepsCounters(crawler, state) ==
    [crawler EXCEPT !.visited_urls = Range(state.visited_urls),
                    !.queue = state.queue]

\* _load_state, lines 446-453: visited set, queue and counters come from the
\* file; session_id is not read from it
_load_state(crawler, state) ==
    [crawler EXCEPT !.visited_urls = Range(state.visited_urls),
                    !.queue = state.queue,
                    !.stats = DictUpdate(crawler.stats, state.stats)]

\* _save_state, lines 429-435: the dict that is pickled, the visited set
\* listed in the order `listed`
_save_state(crawler, listed, t) ==
    [session_id |-> crawler.session_id, visited_urls |-> listed,
     queue |-> crawler.queue, stats |-> crawler.stats, saved_at |-> t]

SavedEntries ==
    {Entry(U_b, 0, NoUrl, "seed"), Entry(U_a, 1, U_root, "internal_link"),
     Entry(U_a2, 1, U_root, "internal_link")}
SavedStats ==
    {ZeroStats,
     [pages_visited |-> 2, pdfs_found |-> 3, internal_links_found |-> 1,
      errors |-> 1, captchas |-> 1]}

\* the checkpoints a crawler of session sid writes into its state file
SavedStates ==
    {_save_state([session_id |-> sid, visited_urls |-> Range(listed),
                  queue |-> q, stats |-> st], listed, 0) :
        sid \in 1..MaxRuns,
        listed \in UNION {Orders(V) : V \in {W \in SUBSET {U_root, U_a, U_b} :
                                                Cardinality(W) <= MaxSaved}},
        q \in UNION {[1..n -> SavedEntries] : n \in 0..MaxSaved},
        st \in SavedStats}

RoundTripInputs == [op : {"load_save"}, state : SavedStates]

\* initialize() finds the state file of its session and loads it (lines
\* 80-83); _save_state() then writes the file again
LoadThenSave ==
    /\ fn_in.op = "load_save"
    /\ ~fn_out.done
    /\ LET crawler == _load_state(NewCrawler(fn_in.state.session_id), fn_in.state)
       IN \E listed \in Orders(crawler.visited_urls) :
            fn_out' = [done |-> TRUE,
                       state |-> _save_state(crawler, listed,
                                             fn_in.state.saved_at + 1)]
    /\ UNCHANGED fn_in
    /\ UNCHANGED outsideFunctions

(***************************************************************************)
(* Pure functions: the CAPTCHA policy                                      *)
(***************************************************************************)
AutoPause == 5    \* asyncio.sleep(5) of the auto-continue branch

\* what the user types at the prompt ("" stands for ENTER or anything else)
Choices == {"", "skip", "abort"}

\* handle_captcha, lines 197-243: what it returns (True = continue) or
\* raises, and how long it slept
handle_captcha(pause_on_captcha, pause_seconds, choice) ==
    IF pause_on_captcha
    THEN IF pause_seconds > 0
         THEN [ret |-> "True", slept |-> pause_seconds]
         ELSE IF choice = "skip" THEN [ret |-> "False", slept |-> 0]
         ELSE IF choice = "abort" THEN [ret |-> "KeyboardInterrupt", slept |-> 0]
         ELSE [ret |-> "True", slept |-> 0]
    ELSE [ret |-> "True", slept |-> AutoPause]

\* should_skip_url, lines 256-261, on what check_page and handle_captcha
\* returned: skip only when handle_captcha returned False
should_skip_url(is_captcha, handled) ==
    IF ~is_captcha THEN "False"
    ELSE IF handled.ret = "KeyboardInterrupt" THEN "KeyboardInterrupt"
    ELSE IF handled.ret = "True" THEN "False" ELSE "True"

\* should_skip_url calls handle_captcha(page, session_id) (line 259), so the
\* crawler reaches the inputs with pause_seconds = 0 only; the other values
\* are handle_captcha called with its pause_seconds argument.
CaptchaInputs ==
    [op : {"captcha"}, is_captcha : BOOLEAN, pause_on_captcha : BOOLEAN,
     pause_seconds : {0, 1}, choice : Choices]

\* one iteration of crawl at lines 145-150, on the verdict of the detector
\* and the policy: a skip counts the CAPTCHA, closes the page and continues
\* with the next entry; otherwise the iteration goes on to extraction, and
\* to line 190 where the URL is added to the visited set
CaptchaStep ==
    /\ fn_in.op = "captcha"
    /\ ~fn_out.done
    /\ LET handled == handle_captcha(fn_in.pause_on_captcha,
                                     fn_in.pause_seconds, fn_in.choice)
           skip == should_skip_url(fn_in.is_captcha, handled)
       IN fn_out' = [done |-> TRUE,
                     slept |-> IF fn_in.is_captcha THEN handled.slept ELSE 0,
                     should_skip |-> skip,
                     captchas |-> IF skip = "True" THEN 1 ELSE 0,
                     page |-> IF skip = "True" THEN "closed" ELSE "open",
                     goes_on |-> skip = "False"]
    /\ UNCHANGED fn_in
    /\ UNCHANGED outsideFunctions

(***************************************************************************)
(* Pure functions: validation on discovery                                 *)
(***************************************************************************)
ValidateInputs ==
    [op : {"validate"}, url : PdfUrls, head : HeadOutcomes,
     known : BOOLEAN, cfg : Configs]

\* crawl, lines 162-174, for one extracted PDF whose HEAD ends as fn_in.head,
\* into a table that is empty or holds a row of the same normalized URL
ValidateOnDiscovery ==
    /\ fn_in.op = "validate"
    /\ ~fn_out.done
    /\ LET pdf == Tag(<<fn_in.url>>, "css_pdf_selector")[1]
           rows == IF fn_in.known
                   THEN _store_pdf_link(<<>>, pdf, U_root, 1, TRUE)
                   ELSE <<>>
       IN fn_out' = [done |-> TRUE,
                     rows |-> StoreAndValidateWith(rows, pdf, U_b, 2, fn_in.cfg,
                                                   fn_in.head)]
    /\ UNCHANGED fn_in
    /\ UNCHANGED outsideFunctions

(***************************************************************************)
(* Pure functions: the visited test of the frontier                        *)
(*                                                                         *)
(* One page URL is visited to the end, then another is dequeued.           *)
(***************************************************************************)
PageUrls == {U_root, U_a, U_a2, U_b}

FrontierInputs == [op : {"frontier"}, first : PageUrls, then : PageUrls]

VisitThenDequeue ==
    /\ fn_in.op = "frontier"
    /\ ~fn_out.done
    /\ LET visited == MarkVisited({}, fn_in.first)
       IN  fn_out' = [done |-> TRUE, visited |-> visited,
                      normalized |-> _normalize_url(fn_in.then),
                      skipped |-> SkipsAsVisited(visited, fn_in.then)]
    /\ UNCHANGED fn_in
    /\ UNCHANGED outsideFunctions

(***************************************************************************)
(* Pure functions: SitemapStrategy.discover (strategies/sitemap.py)        *)
(*                                                                         *)
(* The configured sitemap URLs are "t", a urlset, and "i", a sitemap index *)
(* of the nested sitemaps "a" and "b".  Each nested sitemap is a urlset, a *)
(* malformed document, answered with an HTTP error, fetched with an        *)
(* exception (network error, timeout), or an index that points back at "i".*)
(***************************************************************************)
MaxSitemapDepth == 2    \* largest max_depth configured

NestedKinds == {"urlset", "malformed", "http_error", "raises", "cycle"}
SitemapSites == [a : NestedKinds, b : NestedKinds]
sitemap_urls == <<"t", "i">>

\* the document behind a sitemap URL: how its fetch ends and the <loc>
\* texts of its children
Document(site, url) ==
    CASE url = "t" -> [kind |-> "urlset", locs |-> <<"/t1">>]
      [] url = "i" -> [kind |-> "sitemapindex", locs |-> <<"a", "b">>]
      [] url \in {"a", "b"} ->
            LET kind == IF url = "a" THEN site.a ELSE site.b IN
            CASE kind = "urlset" ->
                    [kind |-> "urlset",
                     locs |-> IF url = "a" THEN <<"/a1">> ELSE <<"/b1">>]
              [] kind = "cycle" -> [kind |-> "sitemapindex", locs |-> <<"i">>]
              [] OTHER -> [kind |-> kind, locs |-> <<>>]

Fetch(url, depth) == [url |-> url, depth |-> depth]

\* what a call of _parse_sitemap yields: it raises or returns urls; fetched
\* lists the requests it has sent
Parsed(raised, urls, fetched) ==
    [raised |-> raised, urls |-> urls, fetched |-> fetched]

\* _parse_sitemap, lines 84-114.  ParseNested is the loop of lines 105-108
\* over the <sitemap> children from `locs` on, with the urls collected and
\* the requests sent so far in acc: an exception of a nested call ends the
\* loop and the call.
RECURSIVE _parse_sitemap(_, _, _, _)
RECURSIVE ParseNested(_, _, _, _, _)
ParseNested(site, locs, depth, cfg, acc) ==
    IF locs = <<>> THEN acc
    ELSE LET sub == _parse_sitemap(site, Head(locs), depth + 1, cfg)
         IN  IF sub.raised
             THEN Parsed(TRUE, <<>>, acc.fetched \o sub.fetched)
             ELSE ParseNested(site, Tail(locs), depth, cfg,
                      Parsed(FALSE, acc.urls \o sub.urls,
                             acc.fetched \o sub.fetched))

_parse_sitemap(site, sitemap_url, depth, cfg) ==
    IF depth > cfg.max_depth THEN Parsed(FALSE, <<>>, <<>>)
    ELSE LET doc == Document(site, sitemap_url)
             sent == <<Fetch(sitemap_url, depth)>>
         IN  CASE doc.kind = "raises" -> Parsed(TRUE, <<>>, sent)
               [] doc.kind \in {"http_error", "malformed"} ->
                     Parsed(FALSE, <<>>, sent)
               [] doc.kind = "sitemapindex" ->
                     IF ~cfg.follow_sitemap_links THEN Parsed(FALSE, <<>>, sent)
                     ELSE ParseNested(site, doc.locs, depth, cfg,
                                      Parsed(FALSE, <<>>, sent))
               [] OTHER -> Parsed(FALSE, doc.locs, sent)

\* discover, lines 45-58, over the configured urls from `urls` on:
\* the discovered set, and the requests sent.  The site has fewer URLs than
\* max_urls and no include or exclude patterns are configured, so
\* _filter_urls keeps every discovered URL.
RECURSIVE SitemapDiscover(_, _, _, _)
SitemapDiscover(site, urls, cfg, acc) ==
    IF urls = <<>> THEN acc
    ELSE LET entries == _parse_sitemap(site, Head(urls), 0, cfg)
         IN  SitemapDiscover(site, Tail(urls), cfg,
                 [discovered |-> IF entries.raised THEN acc.discovered
                                 ELSE acc.discovered \cup Range(entries.urls),
                  fetched |-> acc.fetched \o entries.fetched])

SitemapInputs ==
    [op : {"sitemap"}, site : SitemapSites,
     cfg : [max_depth : 0..MaxSitemapDepth, follow_sitemap_links : BOOLEAN]]

SitemapStrategyDiscover ==
    /\ fn_in.op = "sitemap"
    /\ ~fn_out.done
    /\ LET r == SitemapDiscover(fn_in.site, sitemap_urls, fn_in.cfg,
                                [discovered |-> {}, fetched |-> <<>>])
       IN  fn_out' = [done |-> TRUE, seed_urls |-> r.discovered,
                      fetched |-> r.fetched]
    /\ UNCHANGED fn_in
    /\ UNCHANGED outsideFunctions

FnInputs ==
    ExtractInputs \cup NormalizeInputs \cup GenerateInputs \cup RoundTripInputs
        \cup CaptchaInputs \cup ValidateInputs \cup FrontierInputs
        \cup SitemapInputs

NextFunctions ==
    \/ ExtractPdfsFromPage
    \/ NormalizeUrl
    \/ Discover
    \/ LoadThenSave
    \/ CaptchaStep
    \/ ValidateOnDiscovery
    \/ VisitThenDequeue
    \/ SitemapStrategyDiscover

(***************************************************************************)
(* The frontier loop on a site whose pages always end the same way         *)
(*                                                                         *)
(* fn_in holds the drawn site: how every visit of each page ends.  The     *)
(* rate limiter's wait, the navigation and the checkpoint write complete,  *)
(* so one iteration of the loop is one step.  The statistics counters that *)
(* no test of the loop reads are kept up to MaxCounted, and depths up to   *)
(* MaxTrackedDepth, which is above every configured max_depth: a larger    *)
(* value is recorded as the bound.                                         *)
(***************************************************************************)
MaxCounted == 2         \* largest value kept of a statistics counter
MaxTrackedDepth == 3    \* largest depth kept of a queue entry

PagePaths == {"/", "/a", "/b"}
PageOutcomes == {"ok", "http_error", "raises", "captcha_skip", "close_raises"}
PersistentSites == [op : {"site"}, outcome : [PagePaths -> PageOutcomes]]

\* the internal links of a site whose pages / and /a link to each other
CyclicAnchors(path) ==
    CASE path = "/"  -> <<U_a, U_b>>
      [] path = "/a" -> <<U_root>>
      [] OTHER       -> <<>>

Kept(n) == Min(n, MaxCounted)
Tracked(entries) ==
    [k \in 1..Len(entries) |->
        [entries[k] EXCEPT !.depth = Min(@, MaxTrackedDepth)]]

\* crawl, lines 106-201: one iteration of the while loop
FrontierIteration ==
    /\ pc = "loop"
    /\ queue # <<>>
    /\ LET e == Head(queue)
           how == fn_in.outcome[e.url.path]
           pdfs == _extract_pdfs_from_page(e.url.path)
           new == IF (config.max_depth = 0 \/ e.depth < config.max_depth)
                     /\ config.follow_internal_links
                  THEN Tracked(NewEntries(CyclicAnchors(e.url.path),
                                          visited_urls, e.depth, e.url))
                  ELSE <<>>
           extracted == [stats EXCEPT
                            !.pdfs_found = Kept(@ + Len(pdfs)),
                            !.internal_links_found = Kept(@ + Len(new))]
       IN  IF \/ SkipsAsVisited(visited_urls, e.url)
              \/ TooDeep(e.depth, config.max_depth)
           THEN /\ queue' = Tail(queue)
                /\ UNCHANGED <<visited_urls, stats, pdf_links, files>>
           ELSE CASE how = "raises" ->
                       /\ queue' = Tail(queue)
                       /\ stats' = [stats EXCEPT !.errors = Kept(@ + 1)]
                       /\ UNCHANGED <<visited_urls, pdf_links, files>>
                  [] how = "http_error" ->
                       /\ queue' = Tail(queue)
                       /\ UNCHANGED <<visited_urls, stats, pdf_links, files>>
                  [] how = "captcha_skip" ->
                       /\ queue' = Tail(queue)
                       /\ stats' = [stats EXCEPT !.captchas = Kept(@ + 1)]
                       /\ UNCHANGED <<visited_urls, pdf_links, files>>
                  [] how = "close_raises" ->
                       /\ pdf_links' = StoreAll(pdf_links, pdfs, e.url,
                                                session_id, config)
                       /\ queue' = Tail(queue) \o new
                       /\ stats' = [extracted EXCEPT !.errors = Kept(@ + 1)]
                       /\ UNCHANGED <<visited_urls, files>>
                  [] how = "ok" ->
                       /\ pdf_links' = StoreAll(pdf_links, pdfs, e.url,
                                                session_id, config)
                       /\ queue' = Tail(queue) \o new
                       /\ visited_urls' = MarkVisited(visited_urls, e.url)
                       /\ stats' = [extracted EXCEPT !.pages_visited = @ + 1]
                       /\ files' =
                             IF stats'.pages_visited % save_interval = 0
                             THEN [files EXCEPT ![state_file] =
                                      CheckpointOf(session_id, visited_urls',
                                                   queue', stats', clock)]
                             ELSE files
    /\ UNCHANGED outsideProcess
    /\ UNCHANGED <<sessions, clock, pc, config, session_id, resume_session_id,
                   state_file, cur, exc, iter, hist, faults>>

NextFrontier ==
    \/ FrontierIteration
    \/ LoopExit

\* the proxy manager is not part of the other specifications
ProxyUnused ==
    /\ proxies = <<>> /\ round_robin_index = 0 /\ pm_cache = <<>>
    /\ pm_now = 0 /\ pm_last = PmLast("unused", FALSE, NoProxy)
    /\ pm_calls = 0

\* the limiter is not part of Spec: its wait() is WaitReturns / WaitRaises
LimUnused ==
    /\ base_rate = 0 /\ current_rate = 0 /\ burst_size = 0
    /\ backoff_on_429 = FALSE /\ max_backoff = 0 /\ tokens = 0
    /\ last_refill = 0 /\ now = 0
    /\ limiter_stats = [total_requests |-> 0, c429 |-> 0, current_backoff |-> 0]
    /\ lim_last = [op |-> "init", result |-> "returned", caller |-> "none"]
    /\ lim_hist = [last429_at |-> -1, recoveries |-> 0]

Init == ProcInit /\ LimUnused /\ StratUnused /\ ProxyUnused /\ FnUnused
Spec == Init /\ [][Next]_vars

\* the limiter on its own: no process runs
InitLimiter ==
    LimInit /\ ProcInit /\ config.deduplicate /\ StratUnused /\ ProxyUnused /\ FnUnused
SpecLimiter == InitLimiter /\ [][NextLimiter]_vars

\* the strategies' lifecycle on its own
InitStrategies ==
    StratInit /\ ProcInit /\ config.deduplicate /\ LimUnused /\ ProxyUnused /\ FnUnused
SpecStrategies == InitStrategies /\ [][NextStrategies]_vars

\* the proxy manager on its own
InitProxies ==
    ProxyInit /\ ProcInit /\ config.deduplicate /\ LimUnused /\ StratUnused /\ FnUnused
SpecProxies == InitProxies /\ [][NextProxies]_vars

\* the pool over sources that may repeat an endpoint
SpecSources == InitProxies /\ [][NextSources]_vars

\* the validator's use of the proxy manager
SpecValidator == InitProxies /\ [][NextValidator]_vars

\* the proxy manager under mark_result() calls only
SpecMarks == InitProxies /\ [][NextMarks]_vars

\* the pure functions, each on an input drawn at the start
InitFunctions ==
    /\ fn_in \in FnInputs /\ fn_out = NoResult
    /\ ProcInit /\ config.deduplicate /\ LimUnused /\ StratUnused /\ ProxyUnused
SpecFunctions == InitFunctions /\ [][NextFunctions]_vars

\* the frontier loop of a seeded session on a drawn site.  crawl() is
\* sequential code: an iteration that can run does run, since its awaits
\* complete.
InitFrontier ==
    /\ LimUnused /\ StratUnused /\ ProxyUnused
    /\ fn_in \in PersistentSites /\ fn_out = NoResult
    /\ sessions = <<[id |-> 1, status |-> "running", start_time |-> 0,
                     end_time |-> NoTime]>>
    /\ pdf_links = <<>> /\ files = <<Absent>> /\ clock = 1
    /\ pc = "loop" /\ config \in Configs
    /\ session_id = 1 /\ resume_session_id = 0 /\ state_file = 1
    /\ visited_urls = {} /\ queue = SeedEntries /\ stats = ZeroStats
    /\ cur = NoEntry /\ exc = None /\ iter = NoIter /\ hist = NoHist
    /\ faults = 0

SpecFrontier == InitFrontier /\ [][NextFrontier]_vars /\ WF_vars(NextFrontier)

(***************************************************************************)
(* Claims about the rate limiter (checked under SpecLimiter)               *)
(***************************************************************************)

\* C8: at all times, after any sequence of on_429() and on_success() calls,
\* 1 <= current_rate <= base_rate.
C8_RateWithinBounds ==
    /\ 1 * RateScale <= current_rate
    /\ current_rate <= base_rate * RateScale

\* C8 witness: on_429() has hit the floor (2 -> 1 -> max(1, 0.5) = 1).
C8_Witness ==
    /\ lim_last.op = "on_429"
    /\ base_rate = 2
    /\ limiter_stats.c429 >= 2
    /\ current_rate = 1 * RateScale

\* C9: after on_429() with backoff enabled the token count is zero, and no
\* wait() returns before min(max_backoff, 429_count^2 * 10) seconds have
\* passed since that on_429() call.
C9_BackoffEnforced ==
    /\ (lim_last.op = "on_429" /\ backoff_on_429) => tokens = 0
    /\ (lim_last.op = "wait" /\ lim_last.result = "returned"
            /\ lim_hist.last429_at >= 0)
        => now >= lim_hist.last429_at + limiter_stats.current_backoff

\* C10: every return of wait() consumes one whole token that was available,
\* so the token count always stays within [0, burst_size].
C10_TokensWithinBucket ==
    /\ 0 <= tokens
    /\ tokens <= burst_size * TokUnit

(***************************************************************************)
(* Claims about the orchestrator, the frontier and the store               *)
(* (checked under Spec)                                                    *)
(***************************************************************************)
\* the running iteration has added its URL to the visited set
IterAdded ==
    /\ iter.url # NoUrl
    /\ _normalize_url(iter.url) \in visited_urls \ iter.visited_before

\* the checkpoint file f holds the crawler's state as it is now
HoldsCurrentState(f) ==
    /\ IsCheckpoint(f)
    /\ f.session_id = session_id
    /\ f.visited_urls = visited_urls
    /\ f.queue = queue
    /\ f.stats = stats

\* C1: started with resume and with a checkpoint of the session being
\* resumed, the crawler takes visited set, queue and counters from that
\* checkpoint before the first dequeue, and navigates no URL of the
\* checkpoint's visited set again.
C1_ResumeRestoresCheckpoint ==
    (resume_session_id # 0 /\ IsCheckpoint(files[resume_session_id]))
    => /\ (pc = "loop" /\ hist.dequeues = 0)
           => /\ visited_urls = files[resume_session_id].visited_urls
              /\ queue = files[resume_session_id].queue
              /\ stats = files[resume_session_id].stats
       /\ pc = "visit"
           => _normalize_url(cur.url) \notin files[resume_session_id].visited_urls

\* C2: in every frontier iteration the URL is added to the visited set if and
\* only if the iteration's Page was closed.
C2_VisitedIffPageClosed ==
    iter.done => (IterAdded <=> iter.page = "closed")

\* C2 as amended: the URL is added if and only if the iteration processed the
\* page to the end and closed it there; every other iteration (HTTP error,
\* CAPTCHA skip, error, cancellation, skip) leaves the visited set unchanged.
C2_VisitedIffProcessed ==
    /\ IterAdded => (iter.page = "closed" /\ iter.how = "processed")
    /\ (iter.done /\ iter.how = "processed") => IterAdded
    /\ (iter.url # NoUrl /\ iter.how # "processed")
           => visited_urls = iter.visited_before

\* C2 witness: one iteration closed its page on an HTTP error and a later one
\* processed its page and marked it visited.
C2_Witness ==
    /\ iter.how = "processed"
    /\ IterAdded
    /\ faults > 0
    /\ stats.errors = 0 /\ stats.captchas = 0 /\ hist.final_save = "none"

\* C3: when run() has terminated, whatever the cause, the session has an
\* end_time and a terminal status; no finished run leaves it 'running'.
C3_FinishedRunIsTerminal ==
    pc = "exited"
    => /\ sessions[session_id].status # "running"
       /\ sessions[session_id].end_time # NoTime

\* C4: once a session's status is not 'running' the row never changes again,
\* and end_time is never earlier than start_time.
C4_TerminalStatusSetOnce ==
    /\ [][\A i \in 1..Len(sessions) :
             sessions[i].status # "running" => sessions'[i] = sessions[i]]_vars
    /\ [](\A i \in 1..Len(sessions) :
             /\ sessions[i].status \in {"running", "completed", "failed",
                                        "interrupted", "cancelled"}
             /\ sessions[i].end_time # NoTime
                    => sessions[i].end_time >= sessions[i].start_time)

\* C4 witness: a session that ended interrupted, and a later process that
\* has run to its end.
C4_Witness ==
    /\ Len(sessions) = 2
    /\ sessions[1].status = "interrupted"
    /\ sessions[1].end_time # NoTime
    /\ sessions[2].status = "failed"
    /\ pc = "exited"

\* C5: the checkpoint file at rest is the previous checkpoint or the complete
\* new one, never a partial file, also when the write fails part-way.
C5_CheckpointNeverPartial ==
    pc # "writing" => \A i \in 1..Len(files) : files[i].kind # "partial"

\* C6: on cooperative cancellation (an interrupt delivered to the
\* orchestrator, or 'abort' at a CAPTCHA prompt) a final checkpoint holding
\* the queue, the visited set and the counters of that moment is written
\* first, and then the session is marked 'interrupted'.
C6_CancelCheckpointsThenInterrupted ==
    /\ (session_id # 0 /\ sessions[session_id].status = "interrupted")
           => HoldsCurrentState(files[session_id])
    /\ (pc = "exited" /\ exc \in Signals)
           => sessions[session_id].status = "interrupted"

\* C7: the normalized_url values of all PDFLink rows are pairwise distinct,
\* with deduplicate on or off, within and across sessions.
C7_NormalizedUrlsDistinct ==
    \A i, j \in 1..Len(pdf_links) :
        i # j => pdf_links[i].normalized_url # pdf_links[j].normalized_url

\* C7 witness: with deduplicate off, a second session has just stored the
\* PDFs of a page whose PDFs the first session had stored already.
C7_Witness ==
    /\ ~config.deduplicate
    /\ session_id = 2
    /\ pc = "close"
    /\ cur.url = U_b
    /\ \E i \in 1..Len(pdf_links) :
          /\ pdf_links[i].discovery_session_id = 1
          /\ pdf_links[i].normalized_url = _normalize_url(X_pdf2)

\* C11: a non-fatal error raised at any step of a frontier iteration
\* (rate-limiter wait included) never escapes that iteration: the loop goes
\* on with the next entry and the errors counter is incremented.
C11_ErrorsStayInIteration ==
    /\ iter.how # "escaped"
    /\ (exc = "Exception" /\ hist.dequeues > 0) => pc = "loop"
    /\ iter.how = "error" => stats.errors > 0

\* C13: every frontier entry has depth >= 0, and with max_depth > 0 no entry
\* with depth >= max_depth is navigated or extracted from: it is dropped right
\* after dequeue, before the rate-limiter wait and any page work.
C13_DepthLimitRespected ==
    /\ [](\A i \in 1..Len(queue) : queue[i].depth >= 0)
    /\ [](pc \in {"wait", "visit", "captcha", "extract", "close"}
           => /\ cur.depth >= 0
              /\ config.max_depth > 0 => cur.depth < config.max_depth)
    /\ [][(pc = "loop" /\ queue # <<>> /\ config.max_depth > 0
              /\ Head(queue).depth >= config.max_depth)
          => (pc' = "loop" /\ pdf_links' = pdf_links
                 /\ visited_urls' = visited_urls /\ stats' = stats)]_vars

\* C13 witness: with a depth limit, an entry that is not visited has just
\* been dropped at dequeue.
C13_Witness ==
    /\ config.max_depth > 0
    /\ pc = "loop"
    /\ iter.how = "skipped"
    /\ _normalize_url(iter.url) \notin visited_urls

(***************************************************************************)
(* Claims about the seed strategies (checked under SpecStrategies)         *)
(***************************************************************************)
\* the scanner is past the point where strategies contribute seeds
StrategiesOver ==
    st_pc \in {"initialize_raised", "seeded", "cleaned", "cleanup_raised"}

\* C12: a failure of one enabled strategy, in initialize, discover or cleanup,
\* does not prevent any other enabled strategy from running its discover and
\* contributing its seeds.
C12_StrategyFailuresIsolated ==
    StrategiesOver
    => \A n \in Range(strategies) :
          (\A f \in st_failed : f.strategy # n)
          => /\ n \in st_ran
             /\ st_pc # "initialize_raised"
                   => Range(StrategySeeds(n)) \subseteq Range(st_seed_urls)

(***************************************************************************)
(* Claims about the proxy pool (checked under SpecProxies)                 *)
(***************************************************************************)
\* every proxy record the manager holds or has just handed out or marked
Records ==
    {proxies[i] : i \in 1..Len(proxies)}
        \cup {pm_cache[i] : i \in 1..Len(pm_cache)}
        \cup {pm_last.proxy}

\* every record a validation request leaves behind, validated or not
TestedRecords ==
    {Tested(ProxyRecord(b.url), b.outcome, b.cls, pm_now) : b \in Fetched}

CountersConsistent(p) ==
    p.successful_requests + p.failed_requests <= p.total_requests

\* C14: for every proxy record, after any sequence of pool validations and
\* mark_result calls, successful_requests + failed_requests <= total_requests.
C14_CountersConsistent ==
    \A p \in Records \cup TestedRecords : CountersConsistent(p)

\* C14 witness: mark_result has just counted a request of a proxy that has
\* both successes and failures on record.
C14_Witness ==
    /\ pm_last.op = "mark_result"
    /\ pm_last.proxy.successful_requests >= 1
    /\ pm_last.proxy.failed_requests >= 1
    /\ pm_last.proxy.total_requests >= 3

\* C15: a proxy record with total_requests = 0 has score exactly 50, as
\* created and after update_score, and every score lies in [0, 100].
C15_ScoreOfUnusedAndRange ==
    /\ \A u \in ProxyUrls, t \in 0..MaxProxyHours :
          /\ ProxyRecord(u).total_requests = 0
          /\ ProxyRecord(u).score = 50 * ScoreScale
          /\ update_score(ProxyRecord(u), t).score = 50 * ScoreScale
    /\ \A p \in Records \cup TestedRecords :
          /\ p.total_requests = 0 => p.score = 50 * ScoreScale
          /\ p.score >= 0
          /\ p.score <= 100 * ScoreScale

\* C15 witness: a refresh has rescored the pool, and a pool member's score
\* has moved away from the initial 50.
C15_Witness ==
    /\ pm_last.op = "refresh_pool"
    /\ \E i \in 1..Len(proxies) :
          /\ proxies[i].total_requests > 0
          /\ proxies[i].score # 50 * ScoreScale

\* C16: after initialize(), refresh_pool() and every mark_result(), no proxy
\* of the active pool has a score below 10, and get_next_proxy never returns
\* a proxy with a score below 10.
C16_NoPoolMemberBelowTen ==
    /\ pm_last.op \in {"initialize", "refresh_pool", "mark_result"}
          => \A i \in 1..Len(proxies) : proxies[i].score >= 10 * ScoreScale
    /\ (pm_last.op = "get_next_proxy" /\ pm_last.found)
          => pm_last.proxy.score >= 10 * ScoreScale

\* C16 witness: mark_result has just scored a proxy below 10 and removed it,
\* and other proxies remain in the pool.
C16_Witness ==
    /\ pm_last.op = "mark_result"
    /\ pm_last.proxy.score < 10 * ScoreScale
    /\ proxies # <<>>
    /\ \A i \in 1..Len(proxies) : proxies[i].proxy_url # pm_last.proxy.proxy_url

\* get_next_proxy has just returned; selection changes last_used only, so
\* the pool's scores and health flags are those the selection saw
Selected == pm_last.op = "get_next_proxy"

\* C17 (as stated): get_next_proxy returns no proxy only when the pool is
\* empty, otherwise a pool member; whenever at least one pool member has
\* score >= 30 the returned proxy has score >= 30.
C17_PrefersScoreThirty ==
    Selected
    => /\ ~pm_last.found <=> proxies = <<>>
       /\ pm_last.found => \E i \in 1..Len(proxies) : proxies[i] = pm_last.proxy
       /\ (\E i \in 1..Len(proxies) : proxies[i].score >= 30 * ScoreScale)
             => pm_last.proxy.score >= 30 * ScoreScale

\* C17 (amended): get_next_proxy returns no proxy only when the pool is
\* empty, otherwise a pool member; whenever at least one pool member is
\* flagged healthy and has score >= 30 the returned proxy is flagged healthy
\* and has score >= 30.
C17_PrefersHealthyScoreThirty ==
    Selected
    => /\ ~pm_last.found <=> proxies = <<>>
       /\ pm_last.found => \E i \in 1..Len(proxies) : proxies[i] = pm_last.proxy
       /\ (\E i \in 1..Len(proxies) :
              proxies[i].is_healthy /\ proxies[i].score >= 30 * ScoreScale)
             => /\ pm_last.proxy.is_healthy
                /\ pm_last.proxy.score >= 30 * ScoreScale

\* C17 witness: the pool holds a proxy that is healthy with score >= 30 and
\* one that is not, and get_next_proxy has returned the former.
C17_Witness ==
    /\ Selected
    /\ pm_last.found
    /\ pm_last.proxy.is_healthy
    /\ pm_last.proxy.score >= 30 * ScoreScale
    /\ \E i \in 1..Len(proxies) :
          ~proxies[i].is_healthy \/ proxies[i].score < 30 * ScoreScale

(***************************************************************************)
(* Claims about the pure functions (checked under SpecFunctions)           *)
(***************************************************************************)
Extracted == fn_in.op = "_extract_pdfs_from_page" /\ fn_out.done

\* the methods, in extractor order, and what each found on the page
Methods == <<"css_pdf_selector", "regex_fallback", "script_scan">>
FoundBy(k) ==
    CASE k = 1 -> Range(fn_in.css)
      [] k = 2 -> Range(fn_in.regex)
      [] k = 3 -> Range(fn_in.script)
MethodRank(method) == CHOOSE k \in 1..3 : Methods[k] = method

\* C18: the extractor's output has exactly one entry per distinct normalized
\* PDF URL found by any of the three methods; the entry carries the method
\* and confidence of the highest-confidence method that found the URL; the
\* entries appear in extractor order CSS, regex, script.
C18_OneEntryPerUrlBestMethod ==
    Extracted
    => LET out == fn_out.pdfs
           found == UNION {FoundBy(k) : k \in 1..3}
       IN  /\ {_normalize_url(out[i].url) : i \in 1..Len(out)}
                 = {_normalize_url(u) : u \in found}
           /\ \A i, j \in 1..Len(out) :
                 _normalize_url(out[i].url) = _normalize_url(out[j].url) => i = j
           /\ \A i \in 1..Len(out) :
                 LET finders == {k \in 1..3 :
                                   \E u \in FoundBy(k) :
                                      _normalize_url(u) = _normalize_url(out[i].url)}
                     best == CHOOSE k \in finders :
                                \A m \in finders :
                                   Confidence(Methods[k]) >= Confidence(Methods[m])
                 IN  /\ out[i].method = Methods[best]
                     /\ out[i].confidence = Confidence(Methods[best])
           /\ \A i, j \in 1..Len(out) :
                 i < j => MethodRank(out[i].method) <= MethodRank(out[j].method)

\* C18 witness: a URL found by the regex scan and, written differently, by
\* the script scan, but not by the CSS selector, next to one the CSS
\* selector found.
C18_Witness ==
    /\ Extracted
    /\ \E i, j \in 1..Len(fn_out.pdfs) :
          /\ fn_out.pdfs[i].method = "css_pdf_selector"
          /\ fn_out.pdfs[j].method = "regex_fallback"
          /\ \E u \in Range(fn_in.script) :
                /\ u # fn_out.pdfs[j].url
                /\ _normalize_url(u) = _normalize_url(fn_out.pdfs[j].url)

Normalized == fn_in.op = "_normalize_url" /\ fn_out.done

\* C20: URL normalization is idempotent: for every input URL u,
\* normalize(normalize(u)) = normalize(u).
C20_NormalizeIdempotent ==
    Normalized => fn_out.twice = fn_out.once

\* the inputs urlparse finds a scheme in
InputHasScheme ==
    HasScheme(lower(fn_in.url), Find(lower(fn_in.url), {":"}, 1))

\* normalization is idempotent on the URLs that have a scheme
NormalizeIdempotentWithScheme ==
    (Normalized /\ InputHasScheme) => fn_out.twice = fn_out.once

Discovered == fn_in.op = "discover" /\ fn_out.done

\* the stored URLs with a sequence value, and those of the group of u: the
\* URLs that differ from u in the numeric token of the file name only
Samples == {u \in fn_in.urls : HasSequence(u)}
GroupOf(u) ==
    {v \in Samples :
        /\ Len(v.path) = Len(u.path)
        /\ SubSeq(v.path, 1, Len(v.path) - 1) = SubSeq(u.path, 1, Len(u.path) - 1)
        /\ Last(v.path).pre = Last(u.path).pre
        /\ Last(v.path).ext = Last(u.path).ext}
SeqValues(group) == {Last(v.path).value : v \in group}
Missing(group) ==
    {k \in 0..MaxSeq :
        /\ \E a, b \in SeqValues(group) : a <= k /\ k <= b
        /\ k \notin SeqValues(group)}

\* the URL of a sample with its sequence value replaced by k, zero-padded
\* to the sample's width
WithSeq(u, k) ==
    [u EXCEPT !.path[Len(u.path)] =
        [@ EXCEPT !.value = k, !.width = Len(Padded(k, Last(u.path).width))]]

\* the gaps: a group of at least two samples and a missing value
Gaps ==
    {<<GroupOf(x[1]), x[2]>> :
        x \in {y \in Samples \X (0..MaxSeq) :
                  /\ Cardinality(GroupOf(y[1])) >= 2
                  /\ y[2] \in Missing(GroupOf(y[1]))}}
Fills(gap) == {WithSeq(u, gap[2]) : u \in gap[1]}

\* C19: with at least min_samples stored URLs, the generated seeds are
\* exactly the URLs of the missing integers in [min, max] of each skeleton
\* group with at least 2 samples, zero-padded to the width of the samples;
\* none lies outside [min, max] and none is a stored URL; at most max_urls
\* are generated.
C19_GapFill ==
    (Discovered /\ Cardinality(fn_in.urls) >= fn_in.min_samples)
    => LET out == Range(fn_out.seed_urls)
       IN  /\ out \subseteq UNION {Fills(gap) : gap \in Gaps}
           /\ out \cap fn_in.urls = {}
           /\ Len(fn_out.seed_urls) <= fn_in.max_urls
           /\ IF Cardinality(Gaps) <= fn_in.max_urls
              THEN \A gap \in Gaps : Cardinality(out \cap Fills(gap)) = 1
              ELSE Len(fn_out.seed_urls) = fn_in.max_urls

\* C21: loading a checkpoint and saving it again at once writes the same
\* content: the same session id, the same set of visited URLs, the same
\* queue entries in the same order and the same counters; only saved_at and
\* the order in which the visited set is listed may differ.
RoundTripped == fn_in.op = "load_save" /\ fn_out.done

C21_CheckpointRoundTrip ==
    RoundTripped =>
        /\ fn_out.state.session_id = fn_in.state.session_id
        /\ Range(fn_out.state.visited_urls) = Range(fn_in.state.visited_urls)
        /\ Len(fn_out.state.visited_urls) = Len(fn_in.state.visited_urls)
        /\ fn_out.state.queue = fn_in.state.queue
        /\ fn_out.state.stats = fn_in.state.stats

\* a checkpoint with two visited URLs, a queue that holds one entry twice and
\* counters that are not zero, written back with the visited set listed in
\* the other order and a later saved_at
C21_Witness ==
    /\ RoundTripped
    /\ Len(fn_in.state.visited_urls) = 2
    /\ fn_out.state.visited_urls # fn_in.state.visited_urls
    /\ Len(fn_in.state.queue) = 2
    /\ fn_in.state.queue[1] = fn_in.state.queue[2]
    /\ fn_in.state.stats # ZeroStats
    /\ fn_out.state.saved_at > fn_in.state.saved_at

\* C22: when the detector classifies the page as a CAPTCHA under the policy
\* pause_on_captcha = true with pause_seconds > 0, the iteration sleeps that
\* long, closes the page, does not go on to add the URL to the visited set,
\* and increments the captchas counter by exactly 1.
CaptchaHandled == fn_in.op = "captcha" /\ fn_out.done

C22_CaptchaPauseSkips ==
    (CaptchaHandled /\ fn_in.is_captcha /\ fn_in.pause_on_captcha
        /\ fn_in.pause_seconds > 0)
    => /\ fn_out.slept = fn_in.pause_seconds
       /\ fn_out.page = "closed"
       /\ ~fn_out.goes_on
       /\ fn_out.captchas = 1

\* C23: a URL whose navigation answered HTTP >= 400 is not added to the
\* visited set, and it is not navigated again within the same session, even
\* when pages visited later link to it.
Navigates == pc = "visit" /\ pc' \in {"captcha", "loop"}

C23_HttpErrorNotRenavigated ==
    /\ [](hist.http_errors \cap visited_urls = {})
    /\ [][Navigates => _normalize_url(cur.url) \notin hist.http_errors]_vars

\* C24: the outcome of every page navigation is reported before the next
\* dequeue: to the rate limiter (on_success for a processed page, on_429 for
\* a 429 answer) and to the proxy pool (mark_result for the proxy picked for
\* that navigation).
Reported(op, about) ==
    \E i \in DOMAIN iter.calls : iter.calls[i] = Call(op, about)

C24_NavigationOutcomeReported ==
    /\ (iter.done /\ iter.how = "processed")
        => Reported("on_success", "goto") /\ Reported("mark_result", "goto")
    /\ (iter.done /\ iter.how = "http_error")
        => (Reported("on_429", "goto") \/ Reported("mark_result", "goto"))

\* C25: every outgoing request (a page navigation, a HEAD validation) is
\* preceded by a rate_limiter.wait() that returned, with no other outgoing
\* request between that wait and the request.
Requests == {"goto", "head"}

C25_RequestPrecededByWait ==
    \A i \in DOMAIN iter.calls :
        iter.calls[i].op \in Requests
        => \E j \in 1..(i - 1) :
              /\ iter.calls[j].op = "wait"
              /\ \A k \in (j + 1)..(i - 1) : iter.calls[k].op \notin Requests

\* C26: a URL that was dequeued and whose iteration was cancelled or failed
\* with an error stays eligible on resume: when the final checkpoint is
\* written, the URL is in the checkpoint's visited set or in its queue.
\* (Stated for the last iteration of the session, which is the one that a
\* cancellation interrupts.)
InCheckpointQueue(url, f) ==
    \E i \in 1..Len(f.queue) : _normalize_url(f.queue[i].url) = _normalize_url(url)

C26_UnfinishedUrlInFinalCheckpoint ==
    (/\ hist.final_save = "ok"
     /\ iter.how \in {"cancelled", "error"}
     /\ _normalize_url(iter.url) \notin files[state_file].visited_urls)
    => InCheckpointQueue(iter.url, files[state_file])

\* C27: the page an iteration opened is closed before the next dequeue, on
\* every path (HTTP error, CAPTCHA skip, success, exception), and it is
\* closed when crawl() has ended after a cancellation; so at most one page
\* is open at any moment.
NextDequeue == hist'.dequeues = hist.dequeues + 1

C27_PageClosedBeforeNextDequeue ==
    /\ [][NextDequeue => iter.page # "open"]_vars
    /\ [](pc \in {"except", "cleanup"} => iter.page # "open")

\* C28: the validator reports the outcome of each HEAD to the proxy pool for
\* the proxy the HEAD was sent through: exactly one mark_result per
\* validation that used a proxy, whether it was answered or ended in a
\* network error or timeout, and on that proxy.
Validated == pm_last.op = "_validate_url" /\ pm_last.found

C28_HeadMarkedOnItsProxy ==
    Validated => /\ pm_last.marks = 1
                 /\ pm_last.marked = pm_last.proxy.proxy_url

\* C29: after validation on discovery the status of the stored link is
\* 'accessible' if and only if the HEAD ended with HTTP status 200, it is
\* 'broken' for an HTTP error response and 'blocked' for a network error or
\* timeout; a validation failure never removes the link.
NewLinkValidated ==
    /\ fn_in.op = "validate" /\ fn_out.done
    /\ fn_in.cfg.validate_on_discovery /\ ~fn_in.known

C29_StatusAfterValidation ==
    NewLinkValidated =>
        /\ Len(fn_out.rows) = 1
        /\ fn_out.rows[1].normalized_url = _normalize_url(fn_in.url)
        /\ fn_out.rows[1].status = "accessible" <=> fn_in.head = "200"
        /\ fn_in.head = "http_error" => fn_out.rows[1].status = "broken"
        /\ fn_in.head = "raises" => fn_out.rows[1].status = "blocked"

\* C30: the active proxy pool never holds two records with the same
\* proxy_url, after any sequence of initialize() and refresh_pool() calls,
\* also when an endpoint is listed by several sources or several times by
\* one source.
C30_PoolUrlsDistinct ==
    \A i, j \in 1..Len(proxies) :
        i # j => proxies[i].proxy_url # proxies[j].proxy_url

\* C31: strategy 'best' always returns the eligible proxy with the highest
\* current score, also after mark_result calls have changed scores since the
\* last refresh and when the pool was adopted from the cache file.
C31_BestReturnsHighestScore ==
    [][GetNextProxy("best") /\ proxies # <<>> =>
          \A k \in Candidates(proxies) :
              proxies[k].score <= pm_last'.proxy.score]_vars

\* C32: the proxy cache is flushed after every cache_save_every-th marked
\* result (10 in the source), counting the mark_result calls on the pool as
\* a whole: the cache file is rewritten at each such call however the calls
\* are distributed over the proxies.
MarkCounted == pm_calls' = pm_calls + 1 /\ pm_last'.op = "mark_result"

C32_CacheFlushedEveryNthMark ==
    [][MarkCounted /\ pm_calls' % cache_save_every = 0 =>
          pm_cache' = proxies']_vars

\* C33: the checkpoints of a session are monotonic: of any two checkpoints
\* written in the same session, the later one's visited set includes the
\* earlier one's and its pages_visited counter is not smaller.
C33_CheckpointsMonotonic ==
    \A i, j \in 1..Len(hist.saved) :
        i < j => /\ hist.saved[i].visited_urls \subseteq hist.saved[j].visited_urls
                 /\ hist.saved[i].pages_visited <= hist.saved[j].pages_visited

\* a session has written two checkpoints and visited a page between them
C33_Witness ==
    /\ Len(hist.saved) >= 2
    /\ hist.saved[1].visited_urls # hist.saved[2].visited_urls
    /\ hist.saved[1].visited_urls # {}
    /\ IsCheckpoint(files[session_id])
    /\ files[session_id].visited_urls = hist.saved[Len(hist.saved)].visited_urls

\* C34: rate adaptation arithmetic.  Each on_429() sets current_rate to
\* max(1, current_rate * 0.5): base 60 gives 30 after one call and 7.5 after
\* three consecutive calls.  Each on_success() sets it to
\* min(base_rate, current_rate * 1.1) and never lowers it.  With
\* backoff_on_429 = false, on_429() leaves current_rate, tokens and the 429
\* counter unchanged.  Rates are in units of 1 / RateScale.
C34_RateArithmetic ==
    /\ [](base_rate = 60 /\ lim_hist.recoveries = 0 =>
             /\ limiter_stats.c429 = 1 => current_rate = 30 * RateScale
             /\ limiter_stats.c429 = 3 => 2 * current_rate = 15 * RateScale)
    /\ [][On429 =>
             IF backoff_on_429
             THEN 2 * current_rate' = Max(2 * RateScale, current_rate)
             ELSE UNCHANGED <<current_rate, tokens, limiter_stats>>]_vars
    /\ [][OnSuccess =>
             /\ current_rate' >= current_rate
             /\ 10 * current_rate' =
                   Min(10 * base_rate * RateScale, 11 * current_rate)]_vars

\* three consecutive on_429() calls on a limiter of base rate 60
C34_Witness ==
    /\ base_rate = 60 /\ backoff_on_429
    /\ limiter_stats.c429 = 3 /\ lim_hist.recoveries = 0
    /\ lim_last.op = "on_429"
    /\ 2 * current_rate = 15 * RateScale

\* C35: a page URL that is not a PDF keeps its query string in normalized
\* form: two page URLs that differ only in their query parameters have
\* different normalized forms, and visiting one does not make the frontier
\* skip the other as already visited.
DifferInQueryOnly(u, v) ==
    u.path = v.path /\ u.caps = v.caps /\ u.query # v.query

C35_QueryKeptForPages ==
    (/\ fn_in.op = "frontier" /\ fn_out.done
     /\ DifferInQueryOnly(fn_in.first, fn_in.then)) =>
        /\ fn_out.normalized \notin fn_out.visited
        /\ ~fn_out.skipped

\* C36: sitemap recursion is bounded and terminates: no sitemap at nesting
\* depth greater than max_depth is ever fetched, discovery ends after a
\* bounded number of requests even when sitemap indexes reference each other
\* cyclically, and a malformed or failing nested sitemap does not discard
\* the URLs already collected from its sibling sitemaps.
SitemapsDiscovered == fn_in.op = "sitemap" /\ fn_out.done

\* the nested sitemap "a" is a urlset that discover reaches before "b"
SiblingCollected ==
    /\ fn_in.cfg.follow_sitemap_links /\ fn_in.cfg.max_depth >= 1
    /\ fn_in.site.a = "urlset"

C36_SitemapRecursionBounded ==
    SitemapsDiscovered =>
        /\ \A k \in 1..Len(fn_out.fetched) :
               fn_out.fetched[k].depth <= fn_in.cfg.max_depth
        /\ Len(fn_out.fetched) <=
               Len(sitemap_urls) * Pow(2, fn_in.cfg.max_depth + 1)
        /\ "/t1" \in fn_out.seed_urls
        /\ SiblingCollected => "/a1" \in fn_out.seed_urls

\* the bounds on depth and on the number of requests alone
SitemapDepthBounded ==
    SitemapsDiscovered =>
        /\ \A k \in 1..Len(fn_out.fetched) :
               fn_out.fetched[k].depth <= fn_in.cfg.max_depth
        /\ Len(fn_out.fetched) <=
               Len(sitemap_urls) * Pow(2, fn_in.cfg.max_depth + 1)
        /\ "/t1" \in fn_out.seed_urls

\* C37: in a session started from seeds the pages_visited counter always
\* equals the size of the visited set: each normalized URL is counted as
\* visited at most once, also when several queue entries normalize to the
\* same URL.
C37_PagesVisitedIsVisitedSize ==
    stats.pages_visited = Cardinality(visited_urls)

\* the entry /a?p=2 is dequeued after /a was visited and counted
C37_Witness ==
    /\ iter.url = U_a2 /\ iter.how = "skipped"
    /\ _normalize_url(U_a2) \in visited_urls
    /\ ~TooDeep(1, config.max_depth)
    /\ stats.pages_visited >= 2

\* C38: breadth-first order.  In a session started from seeds the depths of
\* the entries of the frontier queue are non-decreasing from front to back
\* and differ by at most 1; entries are dequeued, and so pages navigated, in
\* non-decreasing depth order; every enqueued internal link has depth
\* exactly one more than the page that yielded it.
Enqueues == pc = "extract" /\ Len(queue') > Len(queue)

C38_BreadthFirstOrder ==
    /\ [](\A i, j \in 1..Len(queue) :
             i < j => /\ queue[i].depth <= queue[j].depth
                      /\ queue[j].depth - queue[i].depth <= 1)
    /\ [][(NextDequeue /\ hist.dequeues > 0) => iter.depth <= iter'.depth]_vars
    /\ [][Enqueues =>
             /\ SubSeq(queue', 1, Len(queue)) = queue
             /\ \A k \in (Len(queue) + 1)..Len(queue') :
                    /\ queue'[k].depth = cur.depth + 1
                    /\ queue'[k].source_url = cur.url]_vars

\* the queue holds entries of depth 1 and of depth 2, and a page of depth 1
\* has been dequeued
C38_Witness ==
    /\ \E i, j \in 1..Len(queue) : queue[i].depth = 1 /\ queue[j].depth = 2
    /\ iter.depth = 1
    /\ hist.dequeues >= 3

\* C39: crawl termination.  On a finite site where every navigation and
\* every rate-limiter wait completes, the frontier loop eventually empties
\* the queue and ends, also with max_depth = 0 (unlimited), with pages that
\* link to each other cyclically and with pages that always fail.
C39_CrawlTerminates == <>(pc = "finally" /\ queue = <<>>)

\* the sites on which no page fails after its links were enqueued
ClosesAlways == \A p \in PagePaths : fn_in.outcome[p] # "close_raises"

\* termination on the sites where page.close() does not raise
TerminatesWhenPagesClose == ClosesAlways => C39_CrawlTerminates

====
